---- MODULE Spec2Model ----
(***************************************************************************)
(* AI-Focus static analysis core: the dependency-graph builder with cycle  *)
(* detection, the stability and risk metrics, and the full and incremental *)
(* analysis paths of the Analyzer and the Orchestrator, the rule factory,  *)
(* the rule engine and its two rules, the configuration loader and the     *)
(* constructors it feeds, the cognitive complexity, and the watch command. *)
(*                                                                         *)
(* A path is a record [dir, base, ext]: "/p/a.ts" is                       *)
(* [dir |-> "/p", base |-> "a", ext |-> ".ts"].  A raw import specifier is *)
(* a record [prefix, base, ext]: "./b" is [prefix |-> "./", base |-> "b",  *)
(* ext |-> ""], the package "lodash" has the empty prefix.                 *)
(***************************************************************************)
EXTENDS Integers, Sequences, FiniteSets, TLC

VARIABLES
    results,   \* generateDependencyGraph: the FileAnalysisResult list handed in
    graph,     \* generateDependencyGraph: the graph returned
    circles,   \* the last value returned by graph.getCircularDependencies()
    stability, \* the last value returned by calculateStability(graph)
    riskScores, \* the last value returned by calculateAllRiskScores(graph, stability)
    gpc,       \* position of the graph scenario
    disk,      \* the file system: path -> source file (or NoFile)
    prev,      \* the snapshot of the previous analysis (prevResult)
    cur,       \* the snapshot returned by the last incremental analysis
    nextId,    \* identity of the next FileAnalysisResult object allocated
    run,       \* what the last incremental analysis did
    pc,        \* position of the watch scenario
    configRules, \* config.rules: the [ruleId, config] entries in key order
    ruleEngine, \* the RuleEngine built from config.rules
    ruleRun,   \* the last rule evaluation: its input and what it returned
    rpc,       \* position of the rule scenario
    configFile, \* the configuration file on disk that loadConfig is pointed at
    loadedConfig, \* the AIFocusConfig (config) returned by loadConfig
    partialConfig, \* the argument of new Analyzer(config)
    analyzerConfig, \* Analyzer.config after construction
    syntaxFindings, \* findings of the last analyzeFile of that Analyzer
    cpc,       \* position of the configuration scenario
    ast,       \* the syntax tree handed to CognitiveComplexityMetric.calculate
    cognitive, \* the value calculate returned
    debounceTimers, \* FileWatcherService.debounceTimers: the keys with a pending timer
    changedSet, \* watch command: changedFiles, the set of changed paths
    analysisTimer, \* watch command: the debounce timer of triggerAnalysis
    lastResult, \* watch command: the run whose result prevResult holds (0: null)
    runs,      \* watch command: the triggerAnalysis executions, in starting order
    unanalyzed, \* paths whose last event no analysis has been started for yet
    watchConfig, \* watch command: incremental.enabled and ai.enabled
    fsEvents   \* number of file-system events delivered so far

vars == <<results, graph, circles, stability, riskScores, gpc, disk, prev, cur, nextId, run, pc,
          configRules, ruleEngine, ruleRun, rpc,
          configFile, loadedConfig, partialConfig, analyzerConfig, syntaxFindings, cpc,
          ast, cognitive,
          debounceTimers, changedSet, analysisTimer, lastResult, runs, unanalyzed,
          watchConfig, fsEvents>>
graphVars == <<results, graph, circles, stability, riskScores, gpc>>
analyzerVars == <<disk, prev, cur, nextId, run, pc>>
ruleVars == <<configRules, ruleEngine, ruleRun, rpc>>
configVars == <<configFile, loadedConfig, partialConfig, analyzerConfig, syntaxFindings, cpc>>
metricVars == <<ast, cognitive>>
watchVars == <<debounceTimers, changedSet, analysisTimer, lastResult, runs, unanalyzed,
               watchConfig, fsEvents>>

(***************************************************************************)
(* Bounds of the model.                                                    *)
(***************************************************************************)
MaxImports == 4
MaxNodeDeps == 2
MaxAddNodeCalls == 3
MaxDiskImports == 2
MaxChanged == 2
MaxEdits == 1
MaxRules == 3
MaxRuleDeps == 4
MaxNodes == 4
MaxFsEvents == 3
MaxRuns == 3

(***************************************************************************)
(* The project: three source files in one directory, and the import        *)
(* specifiers their sources may contain.                                   *)
(***************************************************************************)
ProjectDir == "/p"
P(base, ext) == [dir |-> ProjectDir, base |-> base, ext |-> ext]
FileA == P("a", ".ts")
FileB == P("b", ".ts")
FileC == P("c", ".js")
Files == {FileA, FileB, FileC}

Dep(prefix, base, ext) == [prefix |-> prefix, base |-> base, ext |-> ext]
DepSpecs ==
    { Dep("./", "a", ""), Dep("./", "b", ""), Dep("./", "c", ".js"),
      Dep("./", "a", ".ts"), Dep("", "lodash", "") }

(***************************************************************************)
(* Sequence helpers (Array.prototype.indexOf / includes, 1-based; 0 for    *)
(* JavaScript's -1).                                                       *)
(***************************************************************************)
Range(s) == { s[i] : i \in DOMAIN s }
indexOf(s, x) == IF \E i \in DOMAIN s : s[i] = x
                 THEN CHOOSE i \in DOMAIN s : s[i] = x /\ \A j \in 1..(i-1) : s[j] # x
                 ELSE 0
includes(s, x) == \E i \in DOMAIN s : s[i] = x
NoDuplicates(s) == \A i, j \in DOMAIN s : s[i] = s[j] => i = j

(***************************************************************************)
(* String order on paths (the JavaScript < of detectCircles).  All graph   *)
(* nodes live in ProjectDir, so the order is decided by base, then ext.    *)
(***************************************************************************)
NameRank == [n \in {"a", "b", "c", ".js", ".ts"} |->
               CASE n = "a" -> 1 [] n = "b" -> 2 [] n = "c" -> 3
                 [] n = ".js" -> 1 [] n = ".ts" -> 2]
PathLess(p, q) ==
    \/ NameRank[p.base] < NameRank[q.base]
    \/ p.base = q.base /\ NameRank[p.ext] < NameRank[q.ext]

(***************************************************************************)
(* TreeSitterParser.detectLanguage: the language of a path by extension.   *)
(***************************************************************************)
detectLanguage(filePath) ==
    IF filePath.ext \in {".ts", ".tsx"} THEN "typescript" ELSE "javascript"

(***************************************************************************)
(* FileAnalysisResult as generateDependencyGraph reads it.                 *)
(***************************************************************************)
FileResult(id, filePath, cc, findings, dependencies) ==
    [id |-> id, filePath |-> filePath, language |-> detectLanguage(filePath),
     metrics |-> [cyclomaticComplexity |-> cc], findings |-> findings,
     dependencies |-> dependencies]

(***************************************************************************)
(* DependencyGraphBuilder.isNodeModule / inferExtension and the resolution *)
(* of one raw specifier (the body of the inner loop of                     *)
(* resolveDependencies).                                                   *)
(***************************************************************************)
startsWith(dep, ch) ==
    CASE ch = "." -> dep.prefix \in {"./", "../"}
      [] ch = "/" -> dep.prefix = "/p/"
      [] ch = "~" -> dep.prefix = "~/"
      [] OTHER -> FALSE

isNodeModule(depPath) ==
    /\ ~startsWith(depPath, ".")
    /\ ~startsWith(depPath, "/")
    /\ ~startsWith(depPath, "~")

inferExtension(filePath, language) ==
    CASE language = "typescript" -> IF filePath.ext = ".d" THEN ".d.ts" ELSE ".ts"
      [] language = "javascript" -> ".js"
      [] OTHER -> ""

\* process.cwd(), against which path.resolve completes a relative basedir
WorkingDir == "/cwd"

\* path.resolve(basedir, dep) for a relative specifier, dep itself otherwise
resolvePath(result, dep) ==
    IF startsWith(dep, ".")
    THEN [dir |-> IF dep.prefix = "./"
                  THEN (IF result.filePath.dir = "" THEN WorkingDir
                        ELSE result.filePath.dir)
                  ELSE "/",
          base |-> dep.base, ext |-> dep.ext]
    ELSE [dir |-> IF dep.prefix = "/p/" THEN "/p" ELSE "~",
          base |-> dep.base, ext |-> dep.ext]

withExtension(resolvedPath, language) ==
    IF resolvedPath.ext = ""
    THEN [resolvedPath EXCEPT !.ext = inferExtension(resolvedPath, language)]
    ELSE resolvedPath

RECURSIVE resolveOne_unchecked(_, _, _)
\* a resolution that keeps every non-package import, analyzed or not
resolveOne_unchecked(result, deps, all) ==
    IF deps = <<>> THEN <<>>
    ELSE LET dep == Head(deps)
             rest == resolveOne_unchecked(result, Tail(deps), all)
         IN IF isNodeModule(dep) THEN rest
            ELSE <<withExtension(resolvePath(result, dep), result.language)>> \o rest

RECURSIVE resolveOne(_, _, _)
\* the resolved dependencies of one file result, in source order
resolveOne(result, deps, all) ==
    IF deps = <<>> THEN <<>>
    ELSE LET dep == Head(deps)
             rest == resolveOne(result, Tail(deps), all)
         IN IF isNodeModule(dep) THEN rest
            ELSE LET resolvedPath == withExtension(resolvePath(result, dep), result.language)
                     exists == \E i \in DOMAIN all : all[i].filePath = resolvedPath
                 IN IF exists THEN <<resolvedPath>> \o rest ELSE rest

RECURSIVE mapSet(_, _, _)
\* Map.prototype.set on a Map kept as a sequence of <<key, value>> in insertion order
mapSet(m, k, v) ==
    IF m = <<>> THEN << <<k, v>> >>
    ELSE IF Head(m)[1] = k THEN << <<k, v>> >> \o Tail(m)
    ELSE <<Head(m)>> \o mapSet(Tail(m), k, v)

RECURSIVE resolveFrom(_, _, _)
resolveFrom(todo, all, resolvedDeps) ==
    IF todo = <<>> THEN resolvedDeps
    ELSE resolveFrom(Tail(todo), all,
             mapSet(resolvedDeps, Head(todo).filePath,
                    resolveOne(Head(todo), Head(todo).dependencies, all)))

resolveDependencies(rs) == resolveFrom(rs, rs, <<>>)

(***************************************************************************)
(* DependencyGraphImpl: nodes is a Map, kept as the sequence of its nodes  *)
(* in insertion order.                                                     *)
(***************************************************************************)
NoInstability == <<0 - 1, 1>>
Node(filePath, imports, importedBy) ==
    [filePath |-> filePath, imports |-> imports, importedBy |-> importedBy,
     instability |-> NoInstability]

nodeIndex(g, filePath) ==
    IF \E i \in DOMAIN g : g[i].filePath = filePath
    THEN CHOOSE i \in DOMAIN g : g[i].filePath = filePath
    ELSE 0
nodesHas(g, filePath) == nodeIndex(g, filePath) # 0
nodesGet(g, filePath) == g[nodeIndex(g, filePath)]
nodeKeys(g) == { g[i].filePath : i \in DOMAIN g }

\* addNode that records the reverse edge only on a node it creates
addImportedBy_createOnly(g, depPath, filePath) ==
    IF ~nodesHas(g, depPath)
    THEN Append(g, Node(depPath, <<>>, <<filePath>>))
    ELSE g

\* the body of the loop "for (const depPath of dependencies)" of addNode
addImportedBy(g, depPath, filePath) ==
    IF ~nodesHas(g, depPath)
    THEN Append(g, Node(depPath, <<>>, <<filePath>>))
    ELSE LET i == nodeIndex(g, depPath)
         IN IF ~includes(g[i].importedBy, filePath)
            THEN [g EXCEPT ![i].importedBy = Append(@, filePath)]
            ELSE g

RECURSIVE addImportedByAll(_, _, _)
addImportedByAll(g, dependencies, filePath) ==
    IF dependencies = <<>> THEN g
    ELSE addImportedByAll(addImportedBy(g, Head(dependencies), filePath),
                          Tail(dependencies), filePath)

addNode(g, filePath, dependencies) ==
    LET g1 == IF ~nodesHas(g, filePath)
              THEN Append(g, Node(filePath, <<>>, <<>>))
              ELSE g
        g2 == [g1 EXCEPT ![nodeIndex(g1, filePath)].imports = dependencies]
    IN addImportedByAll(g2, dependencies, filePath)

(***************************************************************************)
(* Rationals <<numerator, denominator>> in lowest terms, for instability,  *)
(* stability and risk (JavaScript numbers in the source).                  *)
(***************************************************************************)
RECURSIVE GCD(_, _)
GCD(a, b) == IF b = 0 THEN a ELSE GCD(b, a % b)
Frac(n, d) == LET g == GCD(n, d) IN IF n = 0 THEN <<0, 1>> ELSE <<n \div g, d \div g>>
Zero == <<0, 1>>
One == <<1, 1>>
RAdd(x, y) == Frac(x[1] * y[2] + y[1] * x[2], x[2] * y[2])
RSub(x, y) == Frac(x[1] * y[2] - y[1] * x[2], x[2] * y[2])
RMul(x, y) == Frac(x[1] * y[1], x[2] * y[2])
RLeq(x, y) == x[1] * y[2] <= y[1] * x[2]

calculateInstability(node) ==
    LET outDegree == Len(node.imports)
        inDegree == Len(node.importedBy)
    IN IF outDegree + inDegree = 0 THEN Zero
       ELSE Frac(outDegree, outDegree + inDegree)

calculateAllInstability(g) ==
    [i \in DOMAIN g |-> [g[i] EXCEPT !.instability = calculateInstability(g[i])]]

RECURSIVE preSeed(_, _)
\* the first loop of buildGraph
preSeed(g, rs) ==
    IF rs = <<>> THEN g
    ELSE preSeed(IF ~nodesHas(g, Head(rs).filePath)
                 THEN Append(g, Node(Head(rs).filePath, <<>>, <<>>))
                 ELSE g, Tail(rs))

RECURSIVE addNodes(_, _)
addNodes(g, resolvedDeps) ==
    IF resolvedDeps = <<>> THEN g
    ELSE addNodes(addNode(g, Head(resolvedDeps)[1], Head(resolvedDeps)[2]),
                  Tail(resolvedDeps))

buildGraph(rs) ==
    calculateAllInstability(addNodes(preSeed(<<>>, rs), resolveDependencies(rs)))

(***************************************************************************)
(* DependencyGraphImpl.getCircularDependencies / detectCircles.            *)
(***************************************************************************)
RECURSIVE reduceMin(_, _)
\* circle.reduce((min, p) => (p < min ? p : min), circle[0])
reduceMin(s, min) ==
    IF s = <<>> THEN min
    ELSE reduceMin(Tail(s), IF PathLess(Head(s), min) THEN Head(s) ELSE min)

\* a cycle closed where the search entered it, without the rotation
normalizeCircle_noRotation(circle) == circle \o <<circle[1]>>

normalizeCircle(circle) ==
    LET minIndex == indexOf(circle, reduceMin(circle, circle[1]))
    IN SubSeq(circle, minIndex, Len(circle)) \o SubSeq(circle, 1, minIndex - 1)
         \o <<circle[minIndex]>>

RECURSIVE join(_, _)
\* Array.prototype.join: the characters of the joined string, one token per
\* path component and one per separator
join(c, sep) ==
    IF c = <<>> THEN <<>>
    ELSE (IF Head(c).dir = "" THEN <<Head(c).base, Head(c).ext>>
          ELSE <<Head(c).dir, "/", Head(c).base, Head(c).ext>>)
           \o (IF Len(c) > 1 THEN <<sep>> \o join(Tail(c), sep) ELSE <<>>)

RECURSIVE detectCircles(_, _, _, _, _)
RECURSIVE detectImports(_, _, _, _, _)
detectCircles(g, current, path, visited, circs) ==
    IF current \in visited
    THEN LET startIndex == indexOf(path, current)
         IN IF startIndex # 0
            THEN LET circle == SubSeq(path, startIndex, Len(path))
                     normalizedCircle == normalizeCircle(circle)
                     circleStr == join(normalizedCircle, "->")
                 IN IF ~\E i \in DOMAIN circs : join(circs[i], "->") = circleStr
                    THEN Append(circs, normalizedCircle)
                    ELSE circs
            ELSE circs
    ELSE IF nodesHas(g, current)
         THEN detectImports(g, nodesGet(g, current).imports, Append(path, current),
                            visited \cup {current}, circs)
         ELSE circs

\* a search that follows only the first import of every node
detectImports_firstOnly(g, imports, path, visited, circs) ==
    IF imports = <<>> THEN circs
    ELSE detectCircles(g, Head(imports), path, visited, circs)

\* the loop "for (const imp of node.imports)" of detectCircles
detectImports(g, imports, path, visited, circs) ==
    IF imports = <<>> THEN circs
    ELSE detectImports(g, Tail(imports), path, visited,
                       detectCircles(g, Head(imports), path, visited, circs))

RECURSIVE circlesFrom(_, _, _)
circlesFrom(g, i, circs) ==
    IF i > Len(g) THEN circs
    ELSE circlesFrom(g, i + 1, detectCircles(g, g[i].filePath, <<>>, {}, circs))

getCircularDependencies(g) == circlesFrom(g, 1, <<>>)

(***************************************************************************)
(* calculateStability: the StabilityMetric of every node.                  *)
(***************************************************************************)
\* the metric with its initial value 1 left in place for an isolated module
stabilityOf_isolatedUnstable(node) ==
    LET ce == Len(node.imports)
        ca == Len(node.importedBy)
    IN [ca |-> ca, ce |-> ce,
        stability |-> IF ca + ce > 0 THEN Frac(ce, ca + ce) ELSE One]

stabilityOf(node) ==
    LET ce == Len(node.imports)
        ca == Len(node.importedBy)
    IN [ca |-> ca, ce |-> ce,
        stability |-> IF ca + ce > 0 THEN Frac(ce, ca + ce)
                      ELSE IF ca = 0 /\ ce = 0 THEN Zero
                      ELSE One]

calculateStability(g) ==
    [p \in nodeKeys(g) |-> stabilityOf(nodesGet(g, p))]

(***************************************************************************)
(* calculateImpact / calculateAllRiskScores (impact analyzer).             *)
(***************************************************************************)
RECURSIVE pushImporters(_, _, _, _)
\* the loop "for (const importer of node.importedBy)" of calculateImpact
pushImporters(queue, importedBy, visited, depth) ==
    IF importedBy = <<>> THEN queue
    ELSE pushImporters(IF Head(importedBy) \notin visited
                       THEN Append(queue, <<Head(importedBy), depth + 1>>)
                       ELSE queue,
                       Tail(importedBy), visited, depth)

RECURSIVE impactLoop_depthFirst(_, _, _, _)
\* a traversal that visits the importers of a file before the files queued
\* earlier
impactLoop_depthFirst(g, queue, visited, impacted) ==
    IF queue = <<>> THEN impacted
    ELSE LET currentFile == Head(queue)[1]
             depth == Head(queue)[2]
         IN IF currentFile \in visited
            THEN impactLoop_depthFirst(g, Tail(queue), visited, impacted)
            ELSE LET visited1 == visited \cup {currentFile}
                     impacted1 == IF depth > 0
                                  THEN Append(impacted, [path |-> currentFile, depth |-> depth])
                                  ELSE impacted
                     queue1 == IF nodesHas(g, currentFile)
                               THEN pushImporters(<<>>, nodesGet(g, currentFile).importedBy,
                                                  visited1, depth) \o Tail(queue)
                               ELSE Tail(queue)
                 IN impactLoop_depthFirst(g, queue1, visited1, impacted1)

RECURSIVE impactLoop(_, _, _, _)
\* the while loop of calculateImpact
impactLoop(g, queue, visited, impacted) ==
    IF queue = <<>> THEN impacted
    ELSE LET currentFile == Head(queue)[1]
             depth == Head(queue)[2]
         IN IF currentFile \in visited
            THEN impactLoop(g, Tail(queue), visited, impacted)
            ELSE LET visited1 == visited \cup {currentFile}
                     impacted1 == IF depth > 0
                                  THEN Append(impacted, [path |-> currentFile, depth |-> depth])
                                  ELSE impacted
                     queue1 == IF nodesHas(g, currentFile)
                               THEN pushImporters(Tail(queue), nodesGet(g, currentFile).importedBy,
                                                  visited1, depth)
                               ELSE Tail(queue)
                 IN impactLoop(g, queue1, visited1, impacted1)

calculateImpact(g, changedFile) == impactLoop(g, << <<changedFile, 0>> >>, {}, <<>>)

RECURSIVE totalRisk_unweighted(_, _)
\* a sum in which every impacted file counts 1 / (depth + 1), whatever its
\* stability
totalRisk_unweighted(impactedFiles, stabilityMetrics) ==
    IF impactedFiles = <<>> THEN Zero
    ELSE LET n == Head(impactedFiles)
             rest == totalRisk_unweighted(Tail(impactedFiles), stabilityMetrics)
         IN IF n.path \in DOMAIN stabilityMetrics
            THEN RAdd(Frac(1, n.depth + 1), rest)
            ELSE rest

RECURSIVE totalRisk(_, _)
totalRisk(impactedFiles, stabilityMetrics) ==
    IF impactedFiles = <<>> THEN Zero
    ELSE LET n == Head(impactedFiles)
             rest == totalRisk(Tail(impactedFiles), stabilityMetrics)
         IN IF n.path \in DOMAIN stabilityMetrics
            THEN RAdd(RMul(RSub(One, stabilityMetrics[n.path].stability),
                           Frac(1, n.depth + 1)), rest)
            ELSE rest

calculateAllRiskScores(g, stabilityMetrics) ==
    [file \in nodeKeys(g) |-> totalRisk(calculateImpact(g, file), stabilityMetrics)]

(***************************************************************************)
(* CircularDependencyRule.evaluateProject, the one project-level rule the  *)
(* default configuration creates, and RuleEngine.evaluateProject over it.  *)
(***************************************************************************)
RuleSeverity == "warning"

\* a raw dependency string read as a key of depMap (a file path)
rawAsPath(dep) == [dir |-> IF dep.prefix = "/p/" THEN "/p" ELSE dep.prefix,
                   base |-> dep.base, ext |-> dep.ext]

depMapHas(rs, key) == \E i \in DOMAIN rs : rs[i].filePath = key
depMapGet(rs, key) ==
    LET last == CHOOSE i \in DOMAIN rs :
                    rs[i].filePath = key /\ \A j \in DOMAIN rs : rs[j].filePath = key => j <= i
    IN rs[last].dependencies

RECURSIVE rawDfs(_, _, _, _, _)
RECURSIVE rawDfsDeps(_, _, _, _, _)
\* dfs of the fallback search: the value is [visited, cycles]
rawDfs(rs, node, path, stack, st) ==
    IF node \in stack
    THEN LET cycleStart == indexOf(path, node)
         IN IF cycleStart # 0
            THEN [st EXCEPT !.cycles =
                     Append(@, SubSeq(path, cycleStart, Len(path)) \o <<node>>)]
            ELSE st
    ELSE IF node \in st.visited THEN st
    ELSE rawDfsDeps(rs, IF depMapHas(rs, node) THEN depMapGet(rs, node) ELSE <<>>,
                    path, stack \cup {node},
                    [st EXCEPT !.visited = @ \cup {node}])

rawDfsDeps(rs, deps, path, stack, st) ==
    IF deps = <<>> THEN st
    ELSE LET dep == rawAsPath(Head(deps))
         IN rawDfsDeps(rs, Tail(deps), path, stack,
                       IF ~depMapHas(rs, dep) THEN st
                       ELSE rawDfs(rs, dep, Append(path, dep), stack, st))

RECURSIVE rawCycles(_, _, _)
rawCycles(rs, i, st) ==
    IF i > Len(rs) THEN st.cycles
    ELSE rawCycles(rs, i + 1,
                   rawDfs(rs, rs[i].filePath, <<rs[i].filePath>>, {}, st))

cycleFinding(cycle) ==
    [id |-> "module.circularDependency", type |-> "ARCHITECTURE",
     message |-> <<"cycle: ">> \o join(cycle, " -> ") \o <<" -> ">>
                   \o (IF Len(cycle) > 1 THEN join(<<cycle[1]>>, "") ELSE <<>>),
     severity |-> RuleSeverity,
     details |-> [cycle |-> cycle, filePath |-> cycle[1]]]

RECURSIVE cycleFindings(_, _)
cycleFindings(rs, cycles) ==
    IF cycles = <<>> THEN <<>>
    ELSE (IF Head(cycles) # <<>> /\ depMapHas(rs, Head(cycles)[1])
          THEN <<cycleFinding(Head(cycles))>> ELSE <<>>)
         \o cycleFindings(rs, Tail(cycles))

\* a rule that reports the cycles of the graph and nothing else
evaluateProject_graphOnly(rs, g) ==
    cycleFindings(rs, getCircularDependencies(g))

evaluateProject(rs, g) ==
    LET found == getCircularDependencies(g)
        cycles == IF found = <<>>
                  THEN rawCycles(rs, 1, [visited |-> {}, cycles |-> <<>>])
                  ELSE found
    IN cycleFindings(rs, cycles)

(***************************************************************************)
(* Rule objects.  An optional value (threshold?, metric?, a metric that    *)
(* may be missing from metrics, an argument that may be undefined) is a    *)
(* sequence: <<>> for undefined, <<v>> for the value v.  A template string *)
(* is the sequence of its parts.                                           *)
(***************************************************************************)
Undefined == <<>>
Some(v) == <<v>>
MetricNames == {"cyclomaticComplexity", "linesOfCode"}

\* JavaScript truthiness of an optional string
truthy(opt) == opt # Undefined /\ opt[1] # ""
\* config.threshold || 0
orZero(opt) == IF opt = Undefined THEN 0 ELSE opt[1]

RuleConfig(enabled, severity, threshold, metric) ==
    [enabled |-> enabled, severity |-> severity, threshold |-> threshold,
     metric |-> metric]

\* new MetricThresholdRule(config); BaseRule sets name to the id and the level
\* to FILE
MetricThresholdRule(id, config) ==
    [kind |-> "MetricThresholdRule", id |-> id, name |-> id, level |-> "file",
     metricName |-> IF truthy(config.metric) THEN config.metric[1] ELSE "",
     threshold |-> orZero(config.threshold),
     severity |-> IF config.severity = "" THEN "warning" ELSE config.severity]

\* new CircularDependencyRule(config)
CircularDependencyRule(id, config) ==
    [kind |-> "CircularDependencyRule", id |-> id, name |-> id, level |-> "project",
     metricName |-> "", threshold |-> 0,
     severity |-> IF config.severity = "" THEN "warning" ELSE config.severity]

NoRule == [kind |-> "null", id |-> "", name |-> "", level |-> "", metricName |-> "",
           threshold |-> 0, severity |-> ""]

\* a rule that is created for every enabled configuration
createRule_ignoreShape(ruleId, ruleConfig) ==
    IF ~ruleConfig.enabled THEN NoRule
    ELSE IF ruleId = "module.circularDependency"
    THEN CircularDependencyRule(ruleId, ruleConfig)
    ELSE MetricThresholdRule(ruleId, ruleConfig)

\* RuleFactory.createRule
createRule(ruleId, ruleConfig) ==
    IF ~ruleConfig.enabled THEN NoRule
    ELSE IF truthy(ruleConfig.metric) /\ ruleConfig.threshold # Undefined
    THEN MetricThresholdRule(ruleId, ruleConfig)
    ELSE IF ruleId = "module.circularDependency"
    THEN CircularDependencyRule(ruleId, ruleConfig)
    ELSE NoRule

\* the value of a rule call: whether it threw, and the findings it returned
Returned(findings) == [threw |-> FALSE, findings |-> findings]
Threw == [threw |-> TRUE, findings |-> <<>>]

\* a file result as the rules read it: metrics is undefined or maps a metric
\* name to a number or to undefined
RuleSubject(filePath, metrics) == [filePath |-> filePath, metrics |-> metrics]

exceededFinding(rule, metricValue, fileResult) ==
    [id |-> <<rule.id, ".exceeded">>, type |-> "RULE_VIOLATION",
     message |-> <<rule.name, ": ", rule.metricName, " (", metricValue,
                   ") exceeds (", rule.threshold, ")">>,
     severity |-> rule.severity,
     details |-> [metricName |-> rule.metricName, value |-> metricValue,
                  threshold |-> rule.threshold, filePath |-> fileResult.filePath]]

\* a rule that fires when the value reaches the threshold
MetricThresholdRule_evaluateFile_atLeast(rule, fileResult) ==
    IF fileResult.metrics = Undefined THEN Threw
    ELSE LET metricValue == fileResult.metrics[1][rule.metricName]
         IN IF metricValue # Undefined /\ metricValue[1] >= rule.threshold
            THEN Returned(<<exceededFinding(rule, metricValue[1], fileResult)>>)
            ELSE Returned(<<>>)

\* MetricThresholdRule.evaluateFile; reading a property of an undefined
\* metrics throws a TypeError
MetricThresholdRule_evaluateFile(rule, fileResult) ==
    IF fileResult.metrics = Undefined THEN Threw
    ELSE LET metricValue == fileResult.metrics[1][rule.metricName]
         IN IF metricValue # Undefined /\ metricValue[1] > rule.threshold
            THEN Returned(<<exceededFinding(rule, metricValue[1], fileResult)>>)
            ELSE Returned(<<>>)

\* the optional dependencyGraph argument: undefined, a graph, or a value
\* that has no getCircularDependencies method
NoGraphArg == [kind |-> "undefined", g |-> <<>>]
GraphArg(g) == [kind |-> "graph", g |-> g]
MalformedGraphArg == [kind |-> "malformed", g |-> <<>>]

RECURSIVE withSeverity(_, _)
withSeverity(findings, severity) ==
    IF findings = <<>> THEN <<>>
    ELSE <<[Head(findings) EXCEPT !.severity = severity]>>
         \o withSeverity(Tail(findings), severity)

\* a rule that reports the first cycle only
CircularDependencyRule_evaluateProject_firstOnly(rule, projectResults, dependencyGraph) ==
    IF dependencyGraph.kind = "malformed" THEN Threw
    ELSE LET g == IF dependencyGraph.kind = "undefined"
                  THEN buildGraph(projectResults) ELSE dependencyGraph.g
             all == withSeverity(evaluateProject(projectResults, g), rule.severity)
         IN Returned(IF all = <<>> THEN <<>> ELSE <<Head(all)>>)

\* CircularDependencyRule.evaluateProject for a rule with its own severity;
\* without a graph it builds one from projectResults
CircularDependencyRule_evaluateProject(rule, projectResults, dependencyGraph) ==
    IF dependencyGraph.kind = "malformed" THEN Threw
    ELSE LET g == IF dependencyGraph.kind = "undefined"
                  THEN buildGraph(projectResults) ELSE dependencyGraph.g
         IN Returned(withSeverity(evaluateProject(projectResults, g), rule.severity))

(***************************************************************************)
(* RuleEngine: rules is the configuration object as the sequence of its    *)
(* [ruleId, config] entries in key order.                                  *)
(***************************************************************************)
NoEngine == [loaded |-> FALSE, fileRules |-> <<>>, projectRules |-> <<>>]

RECURSIVE loadRules(_, _)
loadRules(rulesConfig, engine) ==
    IF rulesConfig = <<>> THEN engine
    ELSE LET rule == createRule(Head(rulesConfig).ruleId, Head(rulesConfig).config)
         IN loadRules(Tail(rulesConfig),
                IF rule = NoRule THEN engine
                ELSE IF rule.level = "file"
                THEN [engine EXCEPT !.fileRules = Append(@, rule)]
                ELSE [engine EXCEPT !.projectRules = Append(@, rule)])

\* new RuleEngine(config)
RuleEngine(rulesConfig) ==
    loadRules(rulesConfig, [loaded |-> TRUE, fileRules |-> <<>>, projectRules |-> <<>>])

\* IRule.evaluateFile of a rule object
rule_evaluateFile(rule, fileResult) ==
    IF rule.kind = "MetricThresholdRule"
    THEN MetricThresholdRule_evaluateFile(rule, fileResult)
    ELSE Returned(<<>>)

\* IRule.evaluateProject of a rule object
rule_evaluateProject(rule, projectResults, dependencyGraph) ==
    IF rule.kind = "CircularDependencyRule"
    THEN CircularDependencyRule_evaluateProject(rule, projectResults, dependencyGraph)
    ELSE Returned(<<>>)

\* the state of an evaluation loop: the rules called so far, how many threw,
\* and the findings accumulated
NoCalls == [calls |-> <<>>, thrown |-> 0, findings |-> <<>>]

RECURSIVE evaluateFileLoop_abortOnThrow(_, _, _)
\* a loop that ends at the first rule that throws
evaluateFileLoop_abortOnThrow(rules, fileResult, acc) ==
    IF rules = <<>> THEN acc
    ELSE LET r == rule_evaluateFile(Head(rules), fileResult)
             called == [acc EXCEPT !.calls = Append(@, Head(rules).id)]
         IN IF r.threw THEN [called EXCEPT !.thrown = @ + 1]
            ELSE evaluateFileLoop_abortOnThrow(Tail(rules), fileResult,
                     [called EXCEPT !.findings = @ \o r.findings])

RECURSIVE evaluateFileLoop(_, _, _)
\* the loop of RuleEngine.evaluateFile over this.fileRules
evaluateFileLoop(rules, fileResult, acc) ==
    IF rules = <<>> THEN acc
    ELSE LET r == rule_evaluateFile(Head(rules), fileResult)
             called == [acc EXCEPT !.calls = Append(@, Head(rules).id)]
         IN evaluateFileLoop(Tail(rules), fileResult,
                IF r.threw THEN [called EXCEPT !.thrown = @ + 1]
                ELSE [called EXCEPT !.findings = @ \o r.findings])

\* RuleEngine.evaluateFile
RuleEngine_evaluateFile(engine, fileResult) ==
    evaluateFileLoop(engine.fileRules, fileResult, NoCalls)

RECURSIVE evaluateProjectLoop(_, _, _, _)
\* the loop of RuleEngine.evaluateProject over this.projectRules
evaluateProjectLoop(rules, projectResults, dependencyGraph, acc) ==
    IF rules = <<>> THEN acc
    ELSE LET r == rule_evaluateProject(Head(rules), projectResults, dependencyGraph)
             called == [acc EXCEPT !.calls = Append(@, Head(rules).id)]
         IN evaluateProjectLoop(Tail(rules), projectResults, dependencyGraph,
                IF r.threw THEN [called EXCEPT !.thrown = @ + 1]
                ELSE [called EXCEPT !.findings = @ \o r.findings])

\* RuleEngine.evaluateProject
RuleEngine_evaluateProject(engine, projectResults, dependencyGraph) ==
    evaluateProjectLoop(engine.projectRules, projectResults, dependencyGraph, NoCalls)

(***************************************************************************)
(* Analyzer.analyzeFile.  A source file on disk is abstracted to what the  *)
(* analysis reads from it: whether it can be read and parsed, the          *)
(* cyclomatic complexity of its function, and its import specifiers.       *)
(***************************************************************************)
NoFile == [exists |-> FALSE, readable |-> FALSE, cc |-> 0, dependencies |-> <<>>]
Source(cc, dependencies) ==
    [exists |-> TRUE, readable |-> TRUE, cc |-> cc, dependencies |-> dependencies]

CyclomaticThreshold == 10
CCValues == {1, 11}

complexityFinding(filePath, cc) ==
    [id |-> "complexity.cyclomatic.high", type |-> "METRIC",
     message |-> <<"cyclomatic complexity exceeds threshold">>,
     severity |-> "warning",
     details |-> [metricName |-> "cyclomaticComplexity", value |-> cc,
                  threshold |-> CyclomaticThreshold, filePath |-> filePath]]

\* analyzeFile throws when the file cannot be read or parsed
analyzeFileThrows(d, filePath) == ~d[filePath].exists \/ ~d[filePath].readable

\* an analysis that reports every file as having complexity 1
analyzeFile_constantComplexity(d, filePath, id) ==
    FileResult(id, filePath, 1, <<>>, d[filePath].dependencies)

\* the FileAnalysisResult of a readable file, allocated as object id; the
\* default configuration creates no file-level rule, so the rule engine adds
\* no finding
analyzeFile(d, filePath, id) ==
    FileResult(id, filePath, d[filePath].cc,
               IF d[filePath].cc > CyclomaticThreshold
               THEN <<complexityFinding(filePath, d[filePath].cc)>> ELSE <<>>,
               d[filePath].dependencies)

RECURSIVE analyzeEach_abortOnThrow(_, _, _, _)
\* a loop that ends at the first file whose analysis throws
analyzeEach_abortOnThrow(d, paths, id, acc) ==
    IF paths = <<>> THEN acc
    ELSE LET filePath == Head(paths)
         IN IF ~d[filePath].exists \/ analyzeFileThrows(d, filePath)
            THEN acc
            ELSE analyzeEach_abortOnThrow(d, Tail(paths), id + 1,
                                          Append(acc, analyzeFile(d, filePath, id)))

RECURSIVE analyzeEach(_, _, _, _)
\* the loop shared by analyzeProject and analyzeFiles: a path that no longer
\* exists is skipped, a file whose analysis throws is logged and skipped
analyzeEach(d, paths, id, acc) ==
    IF paths = <<>> THEN acc
    ELSE LET filePath == Head(paths)
         IN IF ~d[filePath].exists \/ analyzeFileThrows(d, filePath)
            THEN analyzeEach(d, Tail(paths), id, acc)
            ELSE analyzeEach(d, Tail(paths), id + 1,
                             Append(acc, analyzeFile(d, filePath, id)))

RECURSIVE analyzeFileCalls(_, _)
\* the paths on which that loop calls analyzeFile, in order
analyzeFileCalls(d, paths) ==
    IF paths = <<>> THEN <<>>
    ELSE (IF d[Head(paths)].exists THEN <<Head(paths)>> ELSE <<>>)
         \o analyzeFileCalls(d, Tail(paths))

RECURSIVE allFindings(_)
allFindings(rs) ==
    IF rs = <<>> THEN <<>> ELSE Head(rs).findings \o allFindings(Tail(rs))

\* a result whose findings list starts with the findings of the project rules
Snapshot_projectFirst(rs) ==
    LET dependencyGraph == buildGraph(rs)
        stabilityMetrics == calculateStability(dependencyGraph)
    IN [files |-> rs,
        findings |-> evaluateProject(rs, dependencyGraph) \o allFindings(rs),
        dependencyGraph |-> dependencyGraph,
        stabilityMetrics |-> stabilityMetrics,
        riskScores |-> calculateAllRiskScores(dependencyGraph, stabilityMetrics),
        none |-> FALSE]

\* the tail common to analyzeProject and analyzeFiles: graph, stability,
\* risk, findings.  The Analyzer is one with the default rules and a rule
\* engine built from a complete configuration, which holds the
\* module.circularDependency rule.
Snapshot(rs) ==
    LET dependencyGraph == buildGraph(rs)
        stabilityMetrics == calculateStability(dependencyGraph)
    IN [files |-> rs,
        findings |-> allFindings(rs) \o evaluateProject(rs, dependencyGraph),
        dependencyGraph |-> dependencyGraph,
        stabilityMetrics |-> stabilityMetrics,
        riskScores |-> calculateAllRiskScores(dependencyGraph, stabilityMetrics),
        none |-> FALSE]

NoResult == [files |-> <<>>, findings |-> <<>>, dependencyGraph |-> <<>>,
             stabilityMetrics |-> <<>>, riskScores |-> <<>>, none |-> TRUE]

RECURSIVE sortPaths(_)
\* the enumeration order of glob: by path
sortPaths(S) ==
    IF S = {} THEN <<>>
    ELSE LET m == CHOOSE x \in S : \A y \in S \ {x} : PathLess(x, y)
         IN <<m>> \o sortPaths(S \ {m})

glob(d) == sortPaths({ f \in Files : d[f].exists })

analyzeProject(d, id) == Snapshot(analyzeEach(d, glob(d), id, <<>>))

RECURSIVE selectSeq_inverted(_, _)
\* the filter with its test inverted: it keeps the impacted results
selectSeq_inverted(rs, impactedSet) ==
    IF rs = <<>> THEN <<>>
    ELSE (IF Head(rs).filePath \in impactedSet THEN <<Head(rs)>> ELSE <<>>)
         \o selectSeq_inverted(Tail(rs), impactedSet)

\* a filter that keeps every previous result, impacted or not
selectSeq_keepAll(rs, impactedSet) == rs

RECURSIVE selectSeq(_, _)
\* Array.prototype.filter keeping the results whose path is not in a set
selectSeq(rs, impactedSet) ==
    IF rs = <<>> THEN <<>>
    ELSE (IF Head(rs).filePath \notin impactedSet THEN <<Head(rs)>> ELSE <<>>)
         \o selectSeq(Tail(rs), impactedSet)

RECURSIVE toSet(_, _)
\* new Set(array): the distinct elements in first-insertion order
toSet(s, acc) ==
    IF s = <<>> THEN acc
    ELSE toSet(Tail(s), IF includes(acc, Head(s)) THEN acc ELSE Append(acc, Head(s)))

\* an incremental analysis that merges the file results but keeps the
\* previous dependency graph instead of rebuilding it
analyzeFiles_staleGraph(d, filePaths, prevResult, id) ==
    LET impactedSet == toSet(filePaths, <<>>)
        retainedResults == selectSeq(prevResult.files, Range(impactedSet))
        reAnalyzed == analyzeEach(d, impactedSet, id, <<>>)
    IN [Snapshot(retainedResults \o reAnalyzed)
            EXCEPT !.dependencyGraph = prevResult.dependencyGraph]

\* an incremental analysis that keeps the previous result of a file whose
\* re-analysis throws
analyzeFiles_retainOnThrow(d, filePaths, prevResult, id) ==
    LET impactedSet == toSet(filePaths, <<>>)
        failed == { p \in Range(impactedSet) : d[p].exists /\ analyzeFileThrows(d, p) }
        retainedResults == selectSeq(prevResult.files, Range(impactedSet) \ failed)
        reAnalyzed == analyzeEach(d, impactedSet, id, <<>>)
    IN Snapshot(retainedResults \o reAnalyzed)

analyzeFiles(d, filePaths, prevResult, id) ==
    LET impactedSet == toSet(filePaths, <<>>)
        retainedResults == selectSeq(prevResult.files, Range(impactedSet))
        reAnalyzed == analyzeEach(d, impactedSet, id, <<>>)
    IN Snapshot(retainedResults \o reAnalyzed)

\* an incremental analysis that stores the merged list and the rebuilt graph
\* in the snapshot it was given
prevResultAfter_mergedInPlace(d, filePaths, prevResult, id) ==
    [prevResult EXCEPT !.files = analyzeFiles(d, filePaths, prevResult, id).files,
                       !.dependencyGraph =
                           analyzeFiles(d, filePaths, prevResult, id).dependencyGraph]

\* prevResult as analyzeFiles leaves it: the method assigns only to its locals
\* and to objects it allocates (impactedSet, retainedResults, reAnalyzed,
\* mergedResults, the new graph and its nodes, allFindings); it reads
\* prevResult.files and nothing else of prevResult
prevResultAfter(d, filePaths, prevResult, id) == prevResult

(***************************************************************************)
(* Orchestrator.runIncremental: the impacted set.                          *)
(***************************************************************************)
RECURSIVE impactedOf_importsOnly(_, _, _)
\* an impacted set that follows imports but not importedBy
impactedOf_importsOnly(changedFiles, prevResult, impacted) ==
    IF changedFiles = <<>> THEN impacted
    ELSE LET filePath == Head(changedFiles)
             g == prevResult.dependencyGraph
         IN impactedOf_importsOnly(Tail(changedFiles), prevResult,
                IF nodesHas(g, filePath)
                THEN toSet(nodesGet(g, filePath).imports, impacted)
                ELSE impacted)

RECURSIVE impactedOf(_, _, _)
impactedOf(changedFiles, prevResult, impacted) ==
    IF changedFiles = <<>> THEN impacted
    ELSE LET filePath == Head(changedFiles)
             g == prevResult.dependencyGraph
         IN impactedOf(Tail(changedFiles), prevResult,
                IF nodesHas(g, filePath)
                THEN toSet(nodesGet(g, filePath).imports \o nodesGet(g, filePath).importedBy,
                           impacted)
                ELSE impacted)

impactedFiles(changedFiles, prevResult) ==
    impactedOf(changedFiles, prevResult, toSet(changedFiles, <<>>))

(***************************************************************************)
(* The graph scenario: a caller assembles a list of file results and calls *)
(* Analyzer.generateDependencyGraph, then queries the graph.               *)
(***************************************************************************)
NoGraph == <<>>
TotalDeps(rs) ==
    LET RECURSIVE sum(_)
        sum(i) == IF i > Len(rs) THEN 0 ELSE Len(rs[i].dependencies) + sum(i + 1)
    IN sum(1)

GraphInit ==
    /\ results = <<>>
    /\ graph = NoGraph
    /\ circles = <<>>
    /\ stability = <<>>
    /\ riskScores = <<>>
    /\ gpc = "collect"

\* the caller appends the result of one more analyzed file
AddResult(f) ==
    /\ gpc = "collect"
    /\ ~\E i \in DOMAIN results : results[i].filePath = f
    /\ results' = Append(results, FileResult(0, f, 1, <<>>, <<>>))
    /\ UNCHANGED <<graph, circles, stability, riskScores, gpc>>
    /\ UNCHANGED <<analyzerVars, ruleVars, configVars, metricVars, watchVars>>

\* analyzeModuleDependencies found one more import in file result i
AddDependency(i, dep) ==
    /\ gpc = "collect"
    /\ i \in DOMAIN results
    /\ TotalDeps(results) < MaxImports
    /\ results' = [results EXCEPT ![i].dependencies = Append(@, dep)]
    /\ UNCHANGED <<graph, circles, stability, riskScores, gpc>>
    /\ UNCHANGED <<analyzerVars, ruleVars, configVars, metricVars, watchVars>>

GenerateDependencyGraph ==
    /\ gpc = "collect"
    /\ graph' = buildGraph(results)
    /\ stability' = calculateStability(graph')
    /\ riskScores' = calculateAllRiskScores(graph', stability')
    /\ gpc' = "built"
    /\ UNCHANGED <<results, circles>>
    /\ UNCHANGED <<analyzerVars, ruleVars, configVars, metricVars, watchVars>>

GetCircularDependencies ==
    /\ gpc = "built"
    /\ circles' = getCircularDependencies(graph)
    /\ gpc' = "queried"
    /\ UNCHANGED <<results, graph, stability, riskScores>>
    /\ UNCHANGED <<analyzerVars, ruleVars, configVars, metricVars, watchVars>>

GraphIdle ==
    /\ results = <<>>
    /\ graph = NoGraph
    /\ circles = <<>>
    /\ stability = <<>>
    /\ riskScores = <<>>
    /\ gpc = "idle"

(***************************************************************************)
(* The rule scenario: a rules configuration is written, a RuleEngine is    *)
(* built from it and asked to evaluate a file result or a project; or a    *)
(* single rule is constructed and evaluated on its own, as the tests of    *)
(* the rules do.                                                           *)
(***************************************************************************)
RuleIds == {"module.circularDependency", "function.complexity", "file.size"}
Severities == {"error", "info"}
Thresholds == {Undefined, Some(0), Some(10)}
Metrics == {Undefined, Some(""), Some("cyclomaticComplexity")}
MetricValues == {Undefined, Some(0), Some(10), Some(11)}

\* the configurations of a rule: every shape of metric and threshold, two
\* severities, and a disabled rule that names a metric and a threshold
RuleConfigs ==
    { RuleConfig(TRUE, "error", t, m) : t \in Thresholds, m \in Metrics }
    \cup { RuleConfig(TRUE, "info", Some(10), Some("cyclomaticComplexity")),
           RuleConfig(TRUE, "info", Undefined, Undefined),
           RuleConfig(FALSE, "error", Some(10), Some("cyclomaticComplexity")) }

\* the file results handed to evaluateFile
RuleSubjects ==
    { RuleSubject(FileA, Undefined) }
    \cup { RuleSubject(FileA, Some([n \in MetricNames |->
                IF n = "cyclomaticComplexity" THEN v ELSE Some(11)])) :
           v \in MetricValues }

\* a project of three files; "absolute": /p/a.ts, /p/b.ts, /p/c.js importing
\* each other by relative specifiers; "bare": a.ts, b.ts, c.ts naming each
\* other by file name, as the tests of the rules write them
ProjectKinds == {"absolute", "bare"}
Bare(base) == [dir |-> "", base |-> base, ext |-> ".ts"]
projectFile(kind, base) ==
    IF kind = "bare" THEN Bare(base)
    ELSE IF base = "c" THEN FileC ELSE P(base, ".ts")
\* c.js names a TypeScript file with its extension: without one the
\* extension inferred for a JavaScript importer is .js
projectDep(kind, from, base) ==
    IF kind = "bare" THEN Dep("", base, ".ts")
    ELSE IF base = "c" THEN Dep("./", "c", ".js")
    ELSE Dep("./", base, IF from = "c" THEN ".ts" ELSE "")
DepListsUpTo(n) == UNION { [1..k -> {"a", "b", "c"}] : k \in 0..n }
Project(kind, da, db, dc) ==
    LET file(base, d) ==
            FileResult(0, projectFile(kind, base), 1, <<>>,
                       [i \in DOMAIN d |-> projectDep(kind, base, d[i])])
    IN <<file("a", da), file("b", db), file("c", dc)>>
\* every project with at most MaxRuleDeps imports in all
Projects ==
    UNION { UNION { { Project(kind, da, db, dc) :
                        kind \in ProjectKinds,
                        dc \in DepListsUpTo(MaxRuleDeps - Len(da) - Len(db)) } :
                    db \in DepListsUpTo(MaxRuleDeps - Len(da)) } :
            da \in DepListsUpTo(MaxRuleDeps) }
\* the projects handed to the engine: the cycle a -> b -> c -> a, a chain,
\* and two cycles through b
EngineProjects ==
    { Project(kind, <<"b">>, <<"c">>, <<"a">>) : kind \in ProjectKinds }
    \cup { Project("absolute", <<"b">>, <<"c">>, <<>>),
           Project("absolute", <<"b">>, <<"a", "c">>, <<"b">>) }

NoRuleRun == [op |-> "none", fileResult |-> RuleSubject(FileA, Undefined),
              projectResults |-> <<>>, dependencyGraph |-> NoGraphArg,
              config |-> RuleConfig(FALSE, "", Undefined, Undefined),
              rule |-> NoRule, calls |-> <<>>, thrown |-> 0, findings |-> <<>>]

RulesInit ==
    /\ configRules = <<>>
    /\ ruleEngine = NoEngine
    /\ ruleRun = NoRuleRun
    /\ rpc = "config"

RulesIdle ==
    /\ configRules = <<>>
    /\ ruleEngine = NoEngine
    /\ ruleRun = NoRuleRun
    /\ rpc = "idle"

\* rules[ruleId] = config, for a key the object does not have yet
SetRule(ruleId, config) ==
    /\ rpc = "config"
    /\ Len(configRules) < MaxRules
    /\ \A i \in DOMAIN configRules : configRules[i].ruleId # ruleId
    /\ configRules' = Append(configRules, [ruleId |-> ruleId, config |-> config])
    /\ UNCHANGED <<ruleEngine, ruleRun, rpc>>
    /\ UNCHANGED <<graphVars, analyzerVars, configVars, metricVars, watchVars>>

\* new RuleEngine(config)
NewRuleEngine ==
    /\ rpc = "config"
    /\ ruleEngine' = RuleEngine(configRules)
    /\ rpc' = "loaded"
    /\ UNCHANGED <<configRules, ruleRun>>
    /\ UNCHANGED <<graphVars, analyzerVars, configVars, metricVars, watchVars>>

\* engine.evaluateFile(fileResult)
EvaluateFile(fileResult) ==
    /\ rpc = "loaded"
    /\ LET r == RuleEngine_evaluateFile(ruleEngine, fileResult)
       IN ruleRun' = [ruleRun EXCEPT !.op = "engine.evaluateFile",
                                     !.fileResult = fileResult,
                                     !.calls = r.calls, !.thrown = r.thrown,
                                     !.findings = r.findings]
    /\ rpc' = "done"
    /\ UNCHANGED <<configRules, ruleEngine>>
    /\ UNCHANGED <<graphVars, analyzerVars, configVars, metricVars, watchVars>>

graphArgument(kind, projectResults) ==
    CASE kind = "undefined" -> NoGraphArg
      [] kind = "graph" -> GraphArg(buildGraph(projectResults))
      [] OTHER -> MalformedGraphArg

\* engine.evaluateProject(projectResults, dependencyGraph)
EvaluateProject(projectResults, graphKind) ==
    /\ rpc = "loaded"
    /\ LET g == graphArgument(graphKind, projectResults)
           r == RuleEngine_evaluateProject(ruleEngine, projectResults, g)
       IN ruleRun' = [ruleRun EXCEPT !.op = "engine.evaluateProject",
                                     !.projectResults = projectResults,
                                     !.dependencyGraph = g,
                                     !.calls = r.calls, !.thrown = r.thrown,
                                     !.findings = r.findings]
    /\ rpc' = "done"
    /\ UNCHANGED <<configRules, ruleEngine>>
    /\ UNCHANGED <<graphVars, analyzerVars, configVars, metricVars, watchVars>>

\* new MetricThresholdRule(config).evaluateFile(fileResult); the constructor
\* throws when the configuration names no metric
EvaluateMetricRule(config, fileResult) ==
    /\ rpc = "config" /\ configRules = <<>>
    /\ truthy(config.metric)
    /\ LET rule == MetricThresholdRule("test.complexity", config)
           r == MetricThresholdRule_evaluateFile(rule, fileResult)
       IN ruleRun' = [ruleRun EXCEPT !.op = "rule.evaluateFile",
                                     !.fileResult = fileResult,
                                     !.config = config, !.rule = rule,
                                     !.calls = <<rule.id>>,
                                     !.thrown = IF r.threw THEN 1 ELSE 0,
                                     !.findings = r.findings]
    /\ rpc' = "done"
    /\ UNCHANGED <<configRules, ruleEngine>>
    /\ UNCHANGED <<graphVars, analyzerVars, configVars, metricVars, watchVars>>

\* new CircularDependencyRule(config).evaluateProject(projectResults, graph?)
EvaluateCircularRule ==
    /\ rpc = "config" /\ configRules = <<>>
    /\ \E sev \in Severities, projectResults \in Projects,
          graphKind \in {"undefined", "graph"} :
          LET config == RuleConfig(TRUE, sev, Undefined, Undefined)
              rule == CircularDependencyRule("module.circularDependency", config)
              g == graphArgument(graphKind, projectResults)
              r == CircularDependencyRule_evaluateProject(rule, projectResults, g)
          IN ruleRun' = [ruleRun EXCEPT !.op = "rule.evaluateProject",
                                        !.projectResults = projectResults,
                                        !.dependencyGraph = g,
                                        !.config = config, !.rule = rule,
                                        !.calls = <<rule.id>>,
                                        !.thrown = IF r.threw THEN 1 ELSE 0,
                                        !.findings = r.findings]
    /\ rpc' = "done"
    /\ UNCHANGED <<configRules, ruleEngine>>
    /\ UNCHANGED <<graphVars, analyzerVars, configVars, metricVars, watchVars>>

RulesNext ==
    \/ \E ruleId \in RuleIds, config \in RuleConfigs : SetRule(ruleId, config)
    \/ NewRuleEngine
    \/ \E fileResult \in RuleSubjects : EvaluateFile(fileResult)
    \/ \E projectResults \in EngineProjects,
          graphKind \in {"undefined", "graph", "malformed"} :
              EvaluateProject(projectResults, graphKind)
    \/ \E config \in RuleConfigs, fileResult \in RuleSubjects :
              EvaluateMetricRule(config, fileResult)
    \/ EvaluateCircularRule

(***************************************************************************)
(* The watch scenario: a project is written to disk, Orchestrator.run      *)
(* analyzes it in full (prevResult), files are edited, and one incremental *)
(* analysis is run on a set of changed paths.                              *)
(***************************************************************************)
DiskSpecs == DepSpecs \ {Dep("./", "a", ".ts")}
NoRun == [op |-> "none", changed |-> <<>>, impacted |-> <<>>, analyzed |-> <<>>,
          graphThrew |-> FALSE, fellBack |-> FALSE, edits |-> 0]

TotalDiskImports ==
    LET RECURSIVE sum(_)
        sum(S) == IF S = {} THEN 0
                  ELSE LET f == CHOOSE x \in S : TRUE
                       IN Len(disk[f].dependencies) + sum(S \ {f})
    IN sum(Files)

AnalyzerInit ==
    /\ disk = [f \in Files |-> NoFile]
    /\ prev = NoResult
    /\ cur = NoResult
    /\ nextId = 1
    /\ run = NoRun
    /\ pc = "setup"

\* an edit is possible while the project is set up, and MaxEdits times between
\* the full analysis and the incremental one
CanEdit == pc = "setup" \/ (pc = "watching" /\ run.edits < MaxEdits)
Edited == run' = [run EXCEPT !.edits = IF pc = "watching" THEN @ + 1 ELSE @]

CreateFile(f) ==
    /\ CanEdit
    /\ ~disk[f].exists
    /\ disk' = [disk EXCEPT ![f] = Source(1, <<>>)]
    /\ Edited
    /\ UNCHANGED <<prev, cur, nextId, pc>>
    /\ UNCHANGED <<graphVars, ruleVars, configVars, metricVars, watchVars>>

AddImport(f, dep) ==
    /\ CanEdit
    /\ disk[f].exists
    /\ TotalDiskImports < MaxDiskImports
    /\ disk' = [disk EXCEPT ![f].dependencies = Append(@, dep)]
    /\ Edited
    /\ UNCHANGED <<prev, cur, nextId, pc>>
    /\ UNCHANGED <<graphVars, ruleVars, configVars, metricVars, watchVars>>

SetComplexity(f, cc) ==
    /\ CanEdit
    /\ disk[f].exists
    /\ disk[f].cc # cc
    /\ disk' = [disk EXCEPT ![f].cc = cc]
    /\ Edited
    /\ UNCHANGED <<prev, cur, nextId, pc>>
    /\ UNCHANGED <<graphVars, ruleVars, configVars, metricVars, watchVars>>

DeleteFile(f) ==
    /\ pc = "watching" /\ CanEdit
    /\ disk[f].exists
    /\ disk' = [disk EXCEPT ![f] = NoFile]
    /\ Edited
    /\ UNCHANGED <<prev, cur, nextId, pc>>
    /\ UNCHANGED <<graphVars, ruleVars, configVars, metricVars, watchVars>>

\* the file stays on disk but reading or parsing it now fails
MakeUnreadable(f) ==
    /\ pc = "watching" /\ CanEdit
    /\ disk[f].exists /\ disk[f].readable
    /\ disk' = [disk EXCEPT ![f].readable = FALSE]
    /\ Edited
    /\ UNCHANGED <<prev, cur, nextId, pc>>
    /\ UNCHANGED <<graphVars, ruleVars, configVars, metricVars, watchVars>>

\* Orchestrator.run: the first, full analysis
RunFull ==
    /\ pc = "setup"
    /\ prev' = analyzeProject(disk, nextId)
    /\ nextId' = nextId + Len(prev'.files)
    /\ pc' = "watching"
    /\ UNCHANGED <<disk, cur, run>>
    /\ UNCHANGED <<graphVars, ruleVars, configVars, metricVars, watchVars>>

ChangedSeqs ==
    { s \in UNION { [1..n -> Files] : n \in 1..MaxChanged } : NoDuplicates(s) }

\* Analyzer.analyzeFiles called directly on a list of paths
AnalyzeFiles(filePaths) ==
    /\ pc = "watching"
    /\ cur' = analyzeFiles(disk, filePaths, prev, nextId)
    /\ nextId' = nextId + Len(cur'.files)
    /\ run' = [run EXCEPT !.op = "analyzeFiles", !.changed = filePaths,
                          !.impacted = filePaths,
                          !.analyzed = analyzeFileCalls(disk, toSet(filePaths, <<>>))]
    /\ prev' = prevResultAfter(disk, filePaths, prev, nextId)
    /\ pc' = "done"
    /\ UNCHANGED disk
    /\ UNCHANGED <<graphVars, ruleVars, configVars, metricVars, watchVars>>

\* Orchestrator.runIncremental; graphThrows: generateDependencyGraph throws
\* inside analyzeFiles
RunIncremental(changedFiles, graphThrows) ==
    /\ pc = "watching"
    /\ LET impacted == impactedFiles(changedFiles, prev)
       IN /\ cur' = IF graphThrows
                    THEN analyzeProject(disk, nextId)
                    ELSE analyzeFiles(disk, impacted, prev, nextId)
          /\ run' = [run EXCEPT !.op = "runIncremental", !.changed = changedFiles,
                                !.impacted = impacted,
                                !.analyzed = analyzeFileCalls(disk, impacted)
                                    \o (IF graphThrows
                                        THEN analyzeFileCalls(disk, glob(disk))
                                        ELSE <<>>),
                                !.graphThrew = graphThrows,
                                !.fellBack = graphThrows]
    /\ nextId' = nextId + Len(cur'.files)
    /\ prev' = prevResultAfter(disk, impactedFiles(changedFiles, prev), prev, nextId)
    /\ pc' = "done"
    /\ UNCHANGED disk
    /\ UNCHANGED <<graphVars, ruleVars, configVars, metricVars, watchVars>>

(***************************************************************************)
(* The configuration scenario: loadConfig reads a configuration file, the  *)
(* Orchestrator hands the loaded configuration to new Analyzer(...), or an *)
(* Analyzer is constructed directly from a partial configuration, and the  *)
(* Analyzer analyzes a file without functions.  A configuration object is  *)
(* a record of optional fields (Undefined, or Some(v)); a rules object is  *)
(* a function from its rule ids to entries [enabled, severity].            *)
(***************************************************************************)
RuleEntry(enabled, severity) == [enabled |-> enabled, severity |-> severity]

\* analyzer.ts: the rules of DEFAULT_CONFIG
DEFAULT_CONFIG_rules ==
    [id \in {"complexity.cyclomatic", "complexity.cognitive",
             "maintainability", "syntax.error"} |->
        RuleEntry(Some(TRUE),
                  Some(CASE id = "maintainability" -> "info"
                         [] id = "syntax.error" -> "error"
                         [] OTHER -> "warning"))]

\* analyzer.ts: DEFAULT_CONFIG (it names neither debugMode nor rulesConfig)
DEFAULT_CONFIG ==
    [rules |-> Some(DEFAULT_CONFIG_rules), rulesConfig |-> Undefined,
     debugMode |-> Undefined]

\* the rules of getDefaultConfig()
getDefaultConfig_rules ==
    [id \in {"function.complexityLimit", "function.lengthLimit",
             "class.methodCountLimit", "module.circularDependency"} |->
        RuleEntry(Some(TRUE), Some("warning"))]

\* getDefaultConfig(): it sets debugMode and leaves logLevel out
getDefaultConfig ==
    [logLevel |-> Undefined, debugMode |-> Some(FALSE),
     rules |-> Some(getDefaultConfig_rules)]

\* deepMerge on two rule entries: every key of the source overwrites
deepMergeEntry(target, source) ==
    [enabled |-> IF source.enabled # Undefined THEN source.enabled ELSE target.enabled,
     severity |-> IF source.severity # Undefined THEN source.severity
                  ELSE target.severity]

\* deepMerge on two rules objects: a key of both is merged, others are kept
deepMergeRules(target, source) ==
    [id \in DOMAIN target \cup DOMAIN source |->
        IF id \in DOMAIN source
        THEN IF id \in DOMAIN target
             THEN deepMergeEntry(target[id], source[id])
             ELSE source[id]
        ELSE target[id]]

\* deepMerge(target, source) on two configuration objects
deepMerge(target, source) ==
    [logLevel |-> IF source.logLevel # Undefined THEN source.logLevel
                  ELSE target.logLevel,
     debugMode |-> IF source.debugMode # Undefined THEN source.debugMode
                   ELSE target.debugMode,
     rules |-> IF source.rules # Undefined
               THEN IF target.rules # Undefined
                    THEN Some(deepMergeRules(target.rules[1], source.rules[1]))
                    ELSE source.rules
               ELSE target.rules]

NoConfigFile == [exists |-> FALSE, ext |-> "", parses |-> FALSE, value |-> Undefined]

\* loadConfig(configPath): a missing file, an unsupported extension, a
\* parse error and a file that parses to nothing (reading config.logLevel
\* throws) all return getDefaultConfig() as it is
loadConfig(file) ==
    IF ~file.exists THEN getDefaultConfig
    ELSE IF file.ext \notin {".yaml", ".yml", ".json"} THEN getDefaultConfig
    ELSE IF ~file.parses THEN getDefaultConfig
    ELSE IF file.value = Undefined THEN getDefaultConfig
    ELSE LET parsed == file.value[1]
             merged == deepMerge(getDefaultConfig, parsed)
             aliased == IF ~truthy(parsed.logLevel) /\ parsed.debugMode = Some(TRUE)
                        THEN [merged EXCEPT !.logLevel = Some("debug")]
                        ELSE merged
         IN IF ~truthy(aliased.logLevel)
            THEN [aliased EXCEPT !.logLevel = Some("info")]
            ELSE aliased

\* Orchestrator constructor: the analyzerConfig handed to new Analyzer
Orchestrator_analyzerConfig(c) ==
    [rules |-> c.rules, rulesConfig |-> c.rules,
     debugMode |-> Some((IF c.logLevel = Undefined THEN "info" ELSE c.logLevel[1])
                        = "debug")]

\* Analyzer constructor: { ...DEFAULT_CONFIG, ...(config || {}) }
Analyzer_config(partial) ==
    [rules |-> IF partial.rules # Undefined THEN partial.rules ELSE DEFAULT_CONFIG.rules,
     rulesConfig |-> IF partial.rulesConfig # Undefined THEN partial.rulesConfig
                     ELSE DEFAULT_CONFIG.rulesConfig,
     debugMode |-> IF partial.debugMode # Undefined THEN partial.debugMode
                   ELSE DEFAULT_CONFIG.debugMode]

\* Analyzer.isRuleEnabled(ruleId)
isRuleEnabled(c, ruleId) ==
    /\ ruleId \in DOMAIN c.rules[1]
    /\ c.rules[1][ruleId].enabled = Some(TRUE)

\* Analyzer.analyzeFile on a file without functions: the syntax check
analyzeFile_syntax(c, hasErrors) ==
    IF hasErrors /\ isRuleEnabled(c, "syntax.error")
    THEN <<"syntax.error">>
    ELSE <<>>

\* the rules objects a configuration file or a caller writes
FileRuleIds == {"syntax.error", "complexity.cyclomatic"}
RuleEntries == { RuleEntry(Some(e), Undefined) : e \in BOOLEAN }
RulesObjects == UNION { [ids -> RuleEntries] : ids \in SUBSET FileRuleIds }
OptRules == {Undefined} \cup { Some(r) : r \in RulesObjects }
LogLevels == {Undefined} \cup { Some(l) : l \in {"", "debug", "info", "warn", "silent"} }
OptBooleans == {Undefined} \cup { Some(b) : b \in BOOLEAN }
FileConfigs == [logLevel : LogLevels, debugMode : OptBooleans, rules : OptRules]
ConfigFiles ==
    {NoConfigFile}
    \cup [exists : {TRUE}, ext : {".yaml", ".json", ".toml"}, parses : {FALSE},
          value : {Undefined}]
    \cup [exists : {TRUE}, ext : {".yaml", ".json"}, parses : {TRUE},
          value : {Undefined} \cup { Some(c) : c \in FileConfigs }]
PartialConfigs == [rules : OptRules, rulesConfig : {Undefined}, debugMode : OptBooleans]

NoConfig == [logLevel |-> Undefined, debugMode |-> Undefined, rules |-> Undefined]
NoAnalyzerConfig == [rules |-> Undefined, rulesConfig |-> Undefined, debugMode |-> Undefined]

ConfigInit ==
    /\ configFile \in ConfigFiles
    /\ loadedConfig = NoConfig
    /\ partialConfig = NoAnalyzerConfig
    /\ analyzerConfig = NoAnalyzerConfig
    /\ syntaxFindings = <<>>
    /\ cpc = "start"

ConfigIdle ==
    /\ configFile = NoConfigFile
    /\ loadedConfig = NoConfig
    /\ partialConfig = NoAnalyzerConfig
    /\ analyzerConfig = NoAnalyzerConfig
    /\ syntaxFindings = <<>>
    /\ cpc = "idle"

\* const config = await loadConfig(configPath)
LoadConfig ==
    /\ cpc = "start"
    /\ loadedConfig' = loadConfig(configFile)
    /\ cpc' = "loaded"
    /\ UNCHANGED <<configFile, partialConfig, analyzerConfig, syntaxFindings>>
    /\ UNCHANGED <<graphVars, analyzerVars, ruleVars, metricVars, watchVars>>

\* new Orchestrator(config, rootPath), which constructs its Analyzer
NewOrchestrator ==
    /\ cpc = "loaded"
    /\ partialConfig' = Orchestrator_analyzerConfig(loadedConfig)
    /\ analyzerConfig' = Analyzer_config(partialConfig')
    /\ cpc' = "constructed"
    /\ UNCHANGED <<configFile, loadedConfig, syntaxFindings>>
    /\ UNCHANGED <<graphVars, analyzerVars, ruleVars, metricVars, watchVars>>

\* new Analyzer(partial), without a configuration file
NewAnalyzer(partial) ==
    /\ cpc = "start"
    /\ configFile = NoConfigFile
    /\ partialConfig' = partial
    /\ analyzerConfig' = Analyzer_config(partial)
    /\ cpc' = "constructed"
    /\ UNCHANGED <<configFile, loadedConfig, syntaxFindings>>
    /\ UNCHANGED <<graphVars, analyzerVars, ruleVars, metricVars, watchVars>>

\* analyzer.analyzeFile(filePath) on a file without functions
AnalyzeParsedFile(hasErrors) ==
    /\ cpc = "constructed"
    /\ syntaxFindings' = analyzeFile_syntax(analyzerConfig, hasErrors)
    /\ cpc' = IF hasErrors THEN "analyzedErrors" ELSE "analyzedClean"
    /\ UNCHANGED <<configFile, loadedConfig, partialConfig, analyzerConfig>>
    /\ UNCHANGED <<graphVars, analyzerVars, ruleVars, metricVars, watchVars>>

ConfigNext ==
    \/ LoadConfig
    \/ NewOrchestrator
    \/ \E partial \in PartialConfigs : NewAnalyzer(partial)
    \/ \E hasErrors \in BOOLEAN : AnalyzeParsedFile(hasErrors)

(***************************************************************************)
(* Cognitive complexity.  A syntax tree is a record [type, parent] of two  *)
(* sequences: node n has type type[n] and is a child of node parent[n],    *)
(* the root is node 1 (parent 0), and the children of a node are its       *)
(* child(0), child(1), ... in increasing index.                            *)
(***************************************************************************)
isIncrementingStructure(nodeType) ==
    nodeType \in {"if_statement", "conditional_expression", "switch_statement",
                  "for_statement", "for_in_statement", "for_of_statement",
                  "while_statement", "do_statement", "catch_clause"}

isNestingStructure(nodeType) ==
    nodeType \in {"if_statement", "switch_statement", "for_statement",
                  "for_in_statement", "for_of_statement", "while_statement",
                  "do_statement", "catch_clause", "function_declaration",
                  "function_expression", "arrow_function", "method_definition"}

isControlFlowBreak(nodeType) ==
    nodeType \in {"return_statement", "throw_statement", "break_statement",
                  "continue_statement"}

\* a new CognitiveComplexityVisitor
NewVisitor == [complexity |-> 0, nestingLevel |-> 0]

\* it runs inside processNode, before any child is visited
decreaseNestingLevelOnChildrenProcessed(v) ==
    [v EXCEPT !.nestingLevel = @ - 1]

processNode(nodeType, v) ==
    IF isIncrementingStructure(nodeType)
    THEN LET counted == [v EXCEPT !.complexity = @ + 1]
         IN IF isNestingStructure(nodeType)
            THEN decreaseNestingLevelOnChildrenProcessed(
                     [counted EXCEPT !.nestingLevel = @ + 1])
            ELSE counted
    ELSE IF isNestingStructure(nodeType) /\ v.nestingLevel > 0
    THEN decreaseNestingLevelOnChildrenProcessed(
             [v EXCEPT !.complexity = @ + v.nestingLevel, !.nestingLevel = @ + 1])
    ELSE IF isControlFlowBreak(nodeType)
    THEN [v EXCEPT !.complexity = @ + 1]
    ELSE v

RECURSIVE visit(_, _, _)
RECURSIVE visitChildren(_, _, _, _)
\* visit(node): processNode, then every child in order
visit(tree, n, v) == visitChildren(tree, n, n + 1, processNode(tree.type[n], v))

\* the for loop of visit, from the first child with index k or more
visitChildren(tree, n, k, v) ==
    IF k > Len(tree.type) THEN v
    ELSE IF tree.parent[k] = n
    THEN visitChildren(tree, n, k + 1, visit(tree, k, v))
    ELSE visitChildren(tree, n, k + 1, v)

\* CognitiveComplexityMetric.calculate(ast)
calculate(tree) == visit(tree, 1, NewVisitor).complexity

NodeTypes == {"program", "if_statement", "conditional_expression", "arrow_function",
              "return_statement"}
Trees ==
    UNION { { [type |-> t, parent |-> p] :
                t \in [1..n -> NodeTypes],
                p \in { q \in [1..n -> 0..(n - 1)] :
                           \A i \in 1..n : IF i = 1 THEN q[i] = 0
                                           ELSE q[i] \in 1..(i - 1) } } :
            n \in 1..MaxNodes }
NoTree == [type |-> <<>>, parent |-> <<>>]

MetricInit ==
    /\ ast \in Trees
    /\ cognitive = Undefined

MetricIdle ==
    /\ ast = NoTree
    /\ cognitive = Undefined

\* calculateCognitiveComplexity(tree)
Calculate ==
    /\ cognitive = Undefined
    /\ cognitive' = Some(calculate(ast))
    /\ UNCHANGED ast
    /\ UNCHANGED <<graphVars, analyzerVars, ruleVars, configVars, watchVars>>

MetricNext == Calculate

(***************************************************************************)
(* The watch command.  FileWatcherService debounces the file-system events *)
(* per path and type and emits them; the command's handleFileEvent adds    *)
(* the path to changedFiles and re-arms the timer of triggerAnalysis; a    *)
(* triggerAnalysis execution awaits the analysis, the focus report and,    *)
(* with AI enabled, the review report, and then stores its result and      *)
(* clears changedFiles.  runs lists the executions in starting order, each *)
(* with the paths it passed on and the await it is suspended at.           *)
(***************************************************************************)
WatchPaths == {"a.ts", "b.ts"}
FileEventTypes == {"file:added", "file:changed", "file:deleted"}

\* the statements of triggerAnalysis after its last await
finishRun(i) ==
    /\ lastResult' = i
    /\ changedSet' = {}
    /\ runs' = [runs EXCEPT ![i].at = "done"]

InFlight == { i \in DOMAIN runs : runs[i].at # "done" }

WatchInit ==
    /\ debounceTimers = {}
    /\ changedSet = {}
    /\ analysisTimer = "null"
    /\ lastResult = 0
    /\ runs = <<>>
    /\ unanalyzed = {}
    /\ watchConfig \in [incremental : BOOLEAN, ai : BOOLEAN]
    /\ fsEvents = 0

WatchIdle ==
    /\ debounceTimers = {}
    /\ changedSet = {}
    /\ analysisTimer = "null"
    /\ lastResult = 0
    /\ runs = <<>>
    /\ unanalyzed = {}
    /\ watchConfig = [incremental |-> FALSE, ai |-> FALSE]
    /\ fsEvents = 0

\* FileWatcherService.handleFileEvent(filePath, eventType): (re)start the
\* debounce timer of the key
WatcherFileEvent(filePath, eventType) ==
    /\ fsEvents < MaxFsEvents
    /\ fsEvents' = fsEvents + 1
    /\ debounceTimers' = debounceTimers \cup {<<filePath, eventType>>}
    /\ UNCHANGED <<changedSet, analysisTimer, lastResult, runs, unanalyzed, watchConfig>>
    /\ UNCHANGED <<graphVars, analyzerVars, ruleVars, configVars, metricVars>>

\* the debounce timer of a key fires: the event is emitted, and the
\* command's handleFileEvent listens to ADDED and CHANGED
EmitFileEvent(filePath, eventType) ==
    /\ <<filePath, eventType>> \in debounceTimers
    /\ debounceTimers' = debounceTimers \ {<<filePath, eventType>>}
    /\ IF eventType \in {"file:changed", "file:added"}
       THEN /\ changedSet' = changedSet \cup {filePath}
            /\ analysisTimer' = "pending"
            /\ unanalyzed' = unanalyzed \cup {filePath}
       ELSE UNCHANGED <<changedSet, analysisTimer, unanalyzed>>
    /\ UNCHANGED <<lastResult, runs, watchConfig, fsEvents>>
    /\ UNCHANGED <<graphVars, analyzerVars, ruleVars, configVars, metricVars>>

\* analysisTimer fires: triggerAnalysis runs up to its first await
TriggerAnalysis ==
    /\ analysisTimer = "pending"
    /\ analysisTimer' = "fired"
    /\ IF changedSet = {}
       THEN UNCHANGED <<runs, unanalyzed>>
       ELSE /\ Len(runs) < MaxRuns
            /\ runs' = Append(runs,
                   [files |-> changedSet,
                    incremental |-> watchConfig.incremental /\ lastResult # 0,
                    at |-> "analysis"])
            /\ unanalyzed' = unanalyzed \ changedSet
    /\ UNCHANGED <<debounceTimers, changedSet, lastResult, watchConfig, fsEvents>>
    /\ UNCHANGED <<graphVars, analyzerVars, ruleVars, configVars, metricVars>>

\* orchestrator.runIncremental or orchestrator.run resolves: the diff
\* section is generated and the focus report write is awaited
AnalysisResolves(i) ==
    /\ i \in DOMAIN runs
    /\ runs[i].at = "analysis"
    /\ runs' = [runs EXCEPT ![i].at = "focusReport"]
    /\ UNCHANGED <<debounceTimers, changedSet, analysisTimer, lastResult, unanalyzed,
                   watchConfig, fsEvents>>
    /\ UNCHANGED <<graphVars, analyzerVars, ruleVars, configVars, metricVars>>

\* the focus report is written: with AI enabled the review report write is
\* awaited, otherwise the execution finishes
FocusReportWritten(i) ==
    /\ i \in DOMAIN runs
    /\ runs[i].at = "focusReport"
    /\ IF watchConfig.ai
       THEN /\ runs' = [runs EXCEPT ![i].at = "reviewReport"]
            /\ UNCHANGED <<lastResult, changedSet>>
       ELSE finishRun(i)
    /\ UNCHANGED <<debounceTimers, analysisTimer, unanalyzed, watchConfig, fsEvents>>
    /\ UNCHANGED <<graphVars, analyzerVars, ruleVars, configVars, metricVars>>

\* the review report is written: the execution finishes
ReviewReportWritten(i) ==
    /\ i \in DOMAIN runs
    /\ runs[i].at = "reviewReport"
    /\ finishRun(i)
    /\ UNCHANGED <<debounceTimers, analysisTimer, unanalyzed, watchConfig, fsEvents>>
    /\ UNCHANGED <<graphVars, analyzerVars, ruleVars, configVars, metricVars>>

WatchNext ==
    \/ \E filePath \in WatchPaths, eventType \in FileEventTypes :
           WatcherFileEvent(filePath, eventType)
    \/ \E filePath \in WatchPaths, eventType \in FileEventTypes :
           EmitFileEvent(filePath, eventType)
    \/ TriggerAnalysis
    \/ \E i \in 1..MaxRuns : AnalysisResolves(i)
    \/ \E i \in 1..MaxRuns : FocusReportWritten(i)
    \/ \E i \in 1..MaxRuns : ReviewReportWritten(i)

Next ==
    \/ \E f \in Files : CreateFile(f)
    \/ \E f \in Files, dep \in DiskSpecs : AddImport(f, dep)
    \/ \E f \in Files, cc \in CCValues : SetComplexity(f, cc)
    \/ \E f \in Files : DeleteFile(f)
    \/ \E f \in Files : MakeUnreadable(f)
    \/ RunFull
    \/ \E paths \in ChangedSeqs : AnalyzeFiles(paths)
    \/ \E changed \in ChangedSeqs, graphThrows \in BOOLEAN :
           RunIncremental(changed, graphThrows)

Init == AnalyzerInit /\ GraphIdle /\ RulesIdle /\ ConfigIdle /\ MetricIdle /\ WatchIdle

Spec == Init /\ [][Next]_vars

AnalyzerIdle ==
    /\ disk = [f \in Files |-> NoFile]
    /\ prev = NoResult
    /\ cur = NoResult
    /\ nextId = 1
    /\ run = NoRun
    /\ pc = "idle"

GraphNext ==
    \/ \E f \in Files : AddResult(f)
    \/ \E i \in 1..Cardinality(Files), dep \in DepSpecs : AddDependency(i, dep)
    \/ GenerateDependencyGraph
    \/ GetCircularDependencies

InitGraph == GraphInit /\ AnalyzerIdle /\ RulesIdle /\ ConfigIdle /\ MetricIdle /\ WatchIdle

SpecGraph == InitGraph /\ [][GraphNext]_vars

InitRules == RulesInit /\ GraphIdle /\ AnalyzerIdle /\ ConfigIdle /\ MetricIdle /\ WatchIdle

SpecRules == InitRules /\ [][RulesNext]_vars

InitConfig == ConfigInit /\ GraphIdle /\ AnalyzerIdle /\ RulesIdle /\ MetricIdle /\ WatchIdle

SpecConfig == InitConfig /\ [][ConfigNext]_vars

InitMetric == MetricInit /\ GraphIdle /\ AnalyzerIdle /\ RulesIdle /\ ConfigIdle /\ WatchIdle

SpecMetric == InitMetric /\ [][MetricNext]_vars

InitWatch == WatchInit /\ GraphIdle /\ AnalyzerIdle /\ RulesIdle /\ ConfigIdle /\ MetricIdle

SpecWatch == InitWatch /\ [][WatchNext]_vars

(***************************************************************************)
(* Properties of the dependency graph.                                     *)
(***************************************************************************)
Built == gpc \in {"built", "queried"}
importsOf(g, p) == Range(nodesGet(g, p).imports)
importedByOf(g, p) == Range(nodesGet(g, p).importedBy)
Edges(g) == { <<n, m>> \in nodeKeys(g) \X nodeKeys(g) : m \in importsOf(g, n) }

Symmetric(g) ==
    \A n \in nodeKeys(g) :
        /\ \A m \in importsOf(g, n) : nodesHas(g, m) /\ n \in importedByOf(g, m)
        /\ \A m \in importedByOf(g, n) : nodesHas(g, m) /\ n \in importsOf(g, m)

\* C1: in every graph produced by buildGraph, m in n.imports implies
\* n in m.importedBy, and m in n.importedBy implies n in m.imports.
C1_ImportsSymmetric == Built => Symmetric(graph)

\* a graph in which one module is imported by two others and imports one itself
C1_Witness ==
    /\ Built
    /\ \E n \in nodeKeys(graph) :
          /\ Cardinality(importedByOf(graph, n)) = 2
          /\ importsOf(graph, n) # {}

Closed(c) == Len(c) >= 2 /\ c[1] = c[Len(c)]
Normalized(c) == \A i \in 1..(Len(c) - 1) : ~PathLess(c[i], c[1])

\* C2: getCircularDependencies() returns no cycle twice, and every cycle it
\* returns ends where it starts and starts at its smallest path.
C2_CyclesNormalized ==
    gpc = "queried" =>
        /\ NoDuplicates(circles)
        /\ \A i \in DOMAIN circles : Closed(circles[i]) /\ Normalized(circles[i])

\* two cycles are returned, one of them through all three files, found by a
\* search that entered it at a file other than its smallest
C2_Witness ==
    /\ gpc = "queried"
    /\ Len(circles) >= 2
    /\ \E i \in DOMAIN circles : Len(circles[i]) = 4
    /\ graph[1].filePath # FileA

(***************************************************************************)
(* The simple directed cycles of a graph, defined on its edge relation:    *)
(* the sequences of distinct nodes, each importing the next and the last   *)
(* importing the first, written from their smallest node and closed.       *)
(***************************************************************************)
SimpleCycles(g) ==
    LET K == nodeKeys(g)
        Seqs == UNION { [1..n -> K] : n \in 1..Cardinality(K) }
        IsCycle(s) ==
            /\ \A i, j \in DOMAIN s : s[i] = s[j] => i = j
            /\ \A i \in 1..(Len(s) - 1) : <<s[i], s[i + 1]>> \in Edges(g)
            /\ <<s[Len(s)], s[1]>> \in Edges(g)
            /\ \A i \in 2..Len(s) : PathLess(s[1], s[i])
    IN { Append(s, s[1]) : s \in { t \in Seqs : IsCycle(t) } }

\* C3: getCircularDependencies() returns exactly the simple directed cycles
\* of the imports relation, each once: nothing for the chain a -> b -> c,
\* [a, b, a] for two files importing each other, [p, p] for a self-import.
C3_ExactlySimpleCycles ==
    gpc = "queried" =>
        /\ Range(circles) = SimpleCycles(graph)
        /\ NoDuplicates(circles)
        /\ \A i \in DOMAIN circles : \A k \in 1..(Len(circles[i]) - 1) :
               <<circles[i][k], circles[i][k + 1]>> \in Edges(graph)
        /\ Edges(graph) = {<<FileA, FileB>>, <<FileB, FileC>>} => circles = <<>>
        /\ Edges(graph) = {<<FileA, FileB>>, <<FileB, FileA>>}
              => circles = << <<FileA, FileB, FileA>> >>
        /\ \A p \in nodeKeys(graph) :
               <<p, p>> \in Edges(graph) => includes(circles, <<p, p>>)
        /\ (circles = <<>>) = (SimpleCycles(graph) = {})

\* a graph with a two-cycle and a three-cycle that share an edge
C3_Witness ==
    /\ gpc = "queried"
    /\ \E i \in DOMAIN circles : Len(circles[i]) = 3
    /\ \E i \in DOMAIN circles : Len(circles[i]) = 4

StabilityFormula(g, p) ==
    LET ce == Len(nodesGet(g, p).imports)
        ca == Len(nodesGet(g, p).importedBy)
    IN IF ca + ce = 0 THEN Zero ELSE Frac(ce, ca + ce)

\* C4: for every node, StabilityMetric.stability and the instability field
\* both equal ce / (ca + ce), are 0 for an isolated node and lie in [0, 1];
\* for the chain a -> b -> c they are 1, 1/2 and 0.
C4_StabilityFormula ==
    Built =>
        /\ \A p \in nodeKeys(graph) :
              /\ stability[p].stability = StabilityFormula(graph, p)
              /\ nodesGet(graph, p).instability = StabilityFormula(graph, p)
              /\ stability[p].ce = Len(nodesGet(graph, p).imports)
              /\ stability[p].ca = Len(nodesGet(graph, p).importedBy)
              /\ RLeq(Zero, stability[p].stability)
              /\ RLeq(stability[p].stability, One)
              /\ stability[p].ca + stability[p].ce = 0 => stability[p].stability = Zero
        /\ ( /\ nodeKeys(graph) = Files
             /\ Edges(graph) = {<<FileA, FileB>>, <<FileB, FileC>>}
             /\ \A p \in Files : NoDuplicates(nodesGet(graph, p).imports) )
           => /\ stability[FileA].stability = One
              /\ stability[FileB].stability = Frac(1, 2)
              /\ stability[FileC].stability = Zero

\* the chain a -> b -> c next to nothing else, and a graph with an isolated file
C4_Witness ==
    /\ Built
    /\ nodeKeys(graph) = Files
    /\ Edges(graph) = {<<FileA, FileB>>, <<FileB, FileC>>}
    /\ \A p \in Files : NoDuplicates(nodesGet(graph, p).imports)
    /\ stability[FileC].ca + stability[FileC].ce = 1

(***************************************************************************)
(* Properties of the analysis snapshots.                                   *)
(***************************************************************************)
Done == pc = "done"
pathsOf(snapshot) == { snapshot.files[i].filePath : i \in DOMAIN snapshot.files }
resultFor(snapshot, p) ==
    snapshot.files[CHOOSE i \in DOMAIN snapshot.files : snapshot.files[i].filePath = p]
OnDisk == { f \in Files : disk[f].exists }

GraphMatchesFiles(snapshot) ==
    LET g == snapshot.dependencyGraph
    IN /\ nodeKeys(g) = pathsOf(snapshot)
       /\ \A i, j \in DOMAIN g : g[i].filePath = g[j].filePath => i = j
       /\ \A p \in nodeKeys(g) :
             /\ importsOf(g, p) \subseteq pathsOf(snapshot)
             /\ importedByOf(g, p) \subseteq pathsOf(snapshot)

\* C5: after analyzeProject and after analyzeFiles the keys of the graph are
\* exactly the paths of files, and no imports or importedBy entry names a
\* package or a path that is not an analyzed file.
C5_GraphKeysAreFiles ==
    /\ ~prev.none => GraphMatchesFiles(prev)
    /\ ~cur.none => GraphMatchesFiles(cur)

\* an incremental result holding a file without any edge, whose source
\* imports a package and a path that is no analyzed file
C5_Witness ==
    /\ Done /\ ~run.fellBack
    /\ \E i \in DOMAIN cur.files :
          LET r == cur.files[i]
          IN /\ r.filePath = FileC
             /\ r.dependencies = <<Dep("", "lodash", ""), Dep("./", "b", "")>>
             /\ nodesGet(cur.dependencyGraph, FileC).imports = <<>>
             /\ nodesGet(cur.dependencyGraph, FileC).importedBy = <<>>
             /\ FileB \in pathsOf(cur)

(***************************************************************************)
(* Value equality of snapshots: object identity (id) is not part of the    *)
(* value.                                                                  *)
(***************************************************************************)
Value(r) == [r EXCEPT !.id = 0]
ValueOf(snapshot) == [snapshot EXCEPT !.files = [i \in DOMAIN @ |-> Value(@[i])]]
Count(s, x) == Cardinality({ i \in DOMAIN s : s[i] = x })
SameBag(s, t) == Len(s) = Len(t) /\ \A x \in Range(s) \cup Range(t) : Count(s, x) = Count(t, x)

SameUpToOrder(s, t) ==
    /\ SameBag(ValueOf(s).files, ValueOf(t).files)
    /\ SameBag(s.findings, t.findings)
    /\ nodeKeys(s.dependencyGraph) = nodeKeys(t.dependencyGraph)
    /\ Len(s.dependencyGraph) = Len(t.dependencyGraph)
    /\ \A p \in nodeKeys(s.dependencyGraph) :
          LET n == nodesGet(s.dependencyGraph, p)
              m == nodesGet(t.dependencyGraph, p)
          IN /\ n.imports = m.imports
             /\ SameBag(n.importedBy, m.importedBy)
             /\ n.instability = m.instability
    /\ s.stabilityMetrics = t.stabilityMetrics
    /\ s.riskScores = t.riskScores

\* the 1-hop neighbourhood of the changed paths in the previous graph
OneHop(changed) ==
    LET g == prev.dependencyGraph
    IN Range(changed) \cup
       { m \in nodeKeys(g) : \E c \in Range(changed) \cap nodeKeys(g) :
            <<c, m>> \in Edges(g) \/ <<m, c>> \in Edges(g) }

CoversGraph == nodeKeys(prev.dependencyGraph) \subseteq OneHop(run.changed)

C7_RetainedByIdentity ==
    (Done /\ ~run.fellBack) =>
        \A i \in DOMAIN prev.files :
            prev.files[i].filePath \notin Range(run.impacted) =>
                /\ Count(cur.files, prev.files[i]) = 1
                /\ \A j \in DOMAIN cur.files :
                       cur.files[j].filePath = prev.files[i].filePath
                           => cur.files[j] = prev.files[i]

\* a retained file whose source changed on disk after prev, next to a
\* re-analyzed one
C7_Witness ==
    /\ Done /\ run.op = "runIncremental" /\ ~run.fellBack
    /\ \E i \in DOMAIN prev.files :
          /\ prev.files[i].filePath \notin Range(run.impacted)
          /\ disk[prev.files[i].filePath].cc # prev.files[i].metrics.cyclomaticComplexity
    /\ \E j \in DOMAIN cur.files : cur.files[j] \notin Range(prev.files)

RetainedOutside(S) ==
    \A i \in DOMAIN prev.files :
        prev.files[i].filePath \notin S => includes(cur.files, prev.files[i])

\* C8 as stated: analyzeFiles(changedPaths, prev) re-analyzes exactly the
\* changed paths and their direct neighbours in prev's graph.
C8_Original ==
    (Done /\ ~run.fellBack) =>
        /\ Range(run.analyzed) = OneHop(run.changed) \cap OnDisk
        /\ RetainedOutside(OneHop(run.changed))

\* C8 amended: Orchestrator.runIncremental, unless it falls back, re-analyzes
\* exactly the changed paths and their direct neighbours in prev's graph that
\* still exist and retains every other file by identity; Analyzer.analyzeFiles
\* re-analyzes only the paths it is given.
C8_OneHopInRunIncremental ==
    /\ (Done /\ run.op = "runIncremental" /\ ~run.fellBack) =>
          /\ Range(run.analyzed) = OneHop(run.changed) \cap OnDisk
          /\ RetainedOutside(OneHop(run.changed))
          /\ ( /\ Edges(prev.dependencyGraph) = {<<FileA, FileB>>, <<FileB, FileC>>}
               /\ run.changed = <<FileC>> /\ OnDisk = Files )
             => /\ Range(run.analyzed) = {FileC, FileB}
                /\ includes(cur.files, resultFor(prev, FileA))
    /\ (Done /\ run.op = "analyzeFiles") =>
          /\ Range(run.analyzed) = Range(run.changed) \cap OnDisk
          /\ RetainedOutside(Range(run.changed))

\* the leaf c of the chain a -> b -> c changes: b and c are re-analyzed, a,
\* two hops away, is retained
C8_Witness ==
    /\ Done /\ run.op = "runIncremental" /\ ~run.fellBack
    /\ Edges(prev.dependencyGraph) = {<<FileA, FileB>>, <<FileB, FileC>>}
    /\ run.changed = <<FileC>> /\ OnDisk = Files
    /\ Range(run.analyzed) = {FileC, FileB}
    /\ includes(cur.files, resultFor(prev, FileA))

ReflectsDisk(r) ==
    /\ r.metrics.cyclomaticComplexity = disk[r.filePath].cc
    /\ r.dependencies = disk[r.filePath].dependencies

\* C9: analyzeFiles(paths, prev) re-analyzes the listed paths from their
\* current content and leaves every other file of prev in place: a listed
\* file that exists has a result reflecting its content, every unlisted
\* result is the same object as in prev, and the number of files is
\* unchanged when no file was added or deleted.
C9_Original ==
    (Done /\ run.op = "analyzeFiles") =>
        /\ \A p \in Range(run.changed) \cap OnDisk :
              /\ p \in pathsOf(cur)
              /\ ReflectsDisk(resultFor(cur, p))
              /\ ~includes(prev.files, resultFor(cur, p))
        /\ RetainedOutside(Range(run.changed))
        /\ (Range(run.changed) \subseteq pathsOf(prev) /\ pathsOf(prev) \subseteq OnDisk)
              => Len(cur.files) = Len(prev.files)

Analyzable(p) == disk[p].exists /\ ~analyzeFileThrows(disk, p)

\* C9 amended: the same, for the listed files whose analysis succeeds; a
\* listed file that exists but cannot be read or parsed is logged and left out
\* of the result, so the number of files is unchanged when no file was added
\* or deleted and every listed file can be analyzed.
C9_ReanalyzesListedOnly ==
    (Done /\ run.op = "analyzeFiles") =>
        /\ \A p \in Range(run.changed) :
              IF Analyzable(p)
              THEN /\ p \in pathsOf(cur)
                   /\ ReflectsDisk(resultFor(cur, p))
                   /\ ~includes(prev.files, resultFor(cur, p))
                   /\ Count(cur.files, resultFor(cur, p)) = 1
              ELSE p \notin pathsOf(cur)
        /\ RetainedOutside(Range(run.changed))
        /\ ( /\ Range(run.changed) \subseteq pathsOf(prev)
             /\ pathsOf(prev) \subseteq OnDisk
             /\ \A p \in Range(run.changed) : Analyzable(p) )
              => Len(cur.files) = Len(prev.files)

\* b.ts, imported by a.ts, was rewritten with a higher complexity and is the
\* only listed path: two files before and after, a new result for b.ts, the
\* same object for a.ts
C9_Witness ==
    /\ Done /\ run.op = "analyzeFiles" /\ run.changed = <<FileB>>
    /\ pathsOf(prev) = {FileA, FileB} /\ pathsOf(cur) = {FileA, FileB}
    /\ <<FileA, FileB>> \in Edges(prev.dependencyGraph)
    /\ resultFor(cur, FileB).metrics.cyclomaticComplexity
           > resultFor(prev, FileB).metrics.cyclomaticComplexity
    /\ resultFor(cur, FileA) = resultFor(prev, FileA)
    /\ Len(cur.files) = 2

ErrorInIncremental ==
    \/ run.graphThrew
    \/ \E p \in Range(run.impacted) : disk[p].exists /\ analyzeFileThrows(disk, p)

\* C10: if re-analyzing an impacted file or rebuilding the graph fails, the
\* incremental analysis falls back to analyzeProject and returns its result.
C10_Original ==
    (Done /\ run.op = "runIncremental" /\ ErrorInIncremental) =>
        /\ run.fellBack
        /\ OnDisk \subseteq Range(run.analyzed)
        /\ SameUpToOrder(cur, analyzeProject(disk, 0))

Mentions(snapshot, p) ==
    \/ p \in pathsOf(snapshot)
    \/ p \in nodeKeys(snapshot.dependencyGraph)
    \/ \E n \in nodeKeys(snapshot.dependencyGraph) :
          \/ p \in importsOf(snapshot.dependencyGraph, n)
          \/ p \in importedByOf(snapshot.dependencyGraph, n)

\* C11: an impacted path that no longer exists on disk is dropped by the
\* incremental analysis: it is in no file result, is no key of the new graph
\* and is in no imports or importedBy list.
C11_DeletedDropped ==
    Done => \A p \in Range(run.impacted) : ~disk[p].exists => ~Mentions(cur, p)

\* a file that prev knew and another file imported was deleted and is in the
\* impacted set, while its importer is still in the new snapshot
C11_Witness ==
    /\ Done /\ ~run.fellBack
    /\ \E p \in Range(run.impacted) :
          /\ ~disk[p].exists
          /\ p \in pathsOf(prev)
          /\ \E n \in pathsOf(cur) :
                /\ <<n, p>> \in Edges(prev.dependencyGraph)
                /\ \E i \in DOMAIN resultFor(cur, n).dependencies :
                      resultFor(cur, n).dependencies[i].base = p.base

SharedUnchanged ==
    \A i \in DOMAIN prev.files : \A j \in DOMAIN cur.files :
        cur.files[j].id = prev.files[i].id => cur.files[j] = prev.files[i]

MetricRuleRan == rpc = "done" /\ ruleRun.op = "rule.evaluateFile"
\* the value of the configured metric in the evaluated file, if any
MetricOf(fileResult, name) ==
    IF fileResult.metrics = Undefined THEN Undefined ELSE fileResult.metrics[1][name]

\* C13: a MetricThresholdRule with threshold t, on a file whose configured
\* metric has the value v, returns no finding when v <= t or the metric is
\* absent and exactly one when v > t, with id <ruleId>.exceeded, the
\* configured severity and details {metricName, value v, threshold t, filePath}.
C13_ThresholdRule ==
    MetricRuleRan =>
        LET t == IF ruleRun.config.threshold = Undefined THEN 0
                 ELSE ruleRun.config.threshold[1]
            name == ruleRun.config.metric[1]
            v == MetricOf(ruleRun.fileResult, name)
        IN IF v # Undefined /\ v[1] > t
           THEN /\ Len(ruleRun.findings) = 1
                /\ ruleRun.findings[1].id = <<"test.complexity", ".exceeded">>
                /\ ruleRun.findings[1].severity = ruleRun.config.severity
                /\ ruleRun.findings[1].details =
                       [metricName |-> name, value |-> v[1], threshold |-> t,
                        filePath |-> ruleRun.fileResult.filePath]
           ELSE ruleRun.findings = <<>>

\* the rule with threshold 10 and severity info fired on the value 11
C13_Witness ==
    /\ MetricRuleRan
    /\ ruleRun.config.threshold = Some(10)
    /\ ruleRun.config.severity = "info"
    /\ MetricOf(ruleRun.fileResult, "cyclomaticComplexity") = Some(11)
    /\ Len(ruleRun.findings) = 1

(***************************************************************************)
(* RuleEngine dispatch.                                                    *)
(***************************************************************************)
EngineRan(op) == rpc = "done" /\ ruleRun.op = op

\* the ids of the configured rules that yield a rule of a level, in the
\* order of the configuration
RegisteredIds(level) ==
    LET made == SelectSeq(configRules,
                    LAMBDA e : createRule(e.ruleId, e.config).level = level)
    IN [i \in DOMAIN made |-> made[i].ruleId]

RuleIdsOf(rules) == [i \in DOMAIN rules |-> rules[i].id]

RECURSIVE FindingsOfReturned(_)
\* the findings of the calls that returned, concatenated in call order
FindingsOfReturned(outcomes) ==
    IF outcomes = <<>> THEN <<>>
    ELSE (IF Head(outcomes).threw THEN <<>> ELSE Head(outcomes).findings)
         \o FindingsOfReturned(Tail(outcomes))

ThrownIn(outcomes) == Cardinality({i \in DOMAIN outcomes : outcomes[i].threw})

\* C14: evaluateFile calls every registered file-level rule and no
\* project-level rule, in registration order, whether or not an earlier rule
\* threw, and returns the findings of the rules that did not throw,
\* concatenated in that order; evaluateProject does the same with the
\* project-level rules.
C14_EngineContract ==
    /\ EngineRan("engine.evaluateFile") =>
           LET rules == ruleEngine.fileRules
               outcomes == [i \in DOMAIN rules |->
                               rule_evaluateFile(rules[i], ruleRun.fileResult)]
           IN /\ RuleIdsOf(rules) = RegisteredIds("file")
              /\ \A i \in DOMAIN rules : rules[i].level = "file"
              /\ ruleRun.calls = RuleIdsOf(rules)
              /\ ruleRun.thrown = ThrownIn(outcomes)
              /\ ruleRun.findings = FindingsOfReturned(outcomes)
    /\ EngineRan("engine.evaluateProject") =>
           LET rules == ruleEngine.projectRules
               outcomes == [i \in DOMAIN rules |->
                               rule_evaluateProject(rules[i], ruleRun.projectResults,
                                                    ruleRun.dependencyGraph)]
           IN /\ RuleIdsOf(rules) = RegisteredIds("project")
              /\ \A i \in DOMAIN rules : rules[i].level = "project"
              /\ ruleRun.calls = RuleIdsOf(rules)
              /\ ruleRun.thrown = ThrownIn(outcomes)
              /\ ruleRun.findings = FindingsOfReturned(outcomes)

\* two file-level rules and a project-level rule between them are registered,
\* both file-level rules throw on a file result without metrics, and both
\* were called
C14_Witness ==
    /\ EngineRan("engine.evaluateFile")
    /\ Len(configRules) = 3
    /\ configRules[2].ruleId = "module.circularDependency"
    /\ Len(ruleEngine.projectRules) = 1
    /\ ruleRun.fileResult.metrics = Undefined
    /\ ruleRun.calls = <<configRules[1].ruleId, configRules[3].ruleId>>
    /\ ruleRun.thrown = 2
    /\ ruleRun.findings = <<>>

\* two file-level rules fire on the same file result: their findings come
\* back in registration order
EngineOrderReached ==
    /\ EngineRan("engine.evaluateFile")
    /\ Len(ruleRun.findings) = 2
    /\ ruleRun.findings[1].id[1] = "file.size"
    /\ ruleRun.findings[2].id[1] = "function.complexity"


(***************************************************************************)
(* RuleFactory.  The cases of the factory as the specification lists them; *)
(* a metric is present when it names a metric (a non-empty string), a      *)
(* threshold is present when it is defined, 0 included.                    *)
(***************************************************************************)
EngineLoaded == ruleEngine.loaded

FactoryCase(ruleId, cfg) ==
    CASE ~cfg.enabled -> "null"
      [] cfg.enabled /\ cfg.metric \notin {Undefined, Some("")} /\ cfg.threshold # Undefined
            -> "MetricThresholdRule"
      [] cfg.enabled /\ ~(cfg.metric \notin {Undefined, Some("")} /\ cfg.threshold # Undefined)
           /\ ruleId = "module.circularDependency"
            -> "CircularDependencyRule"
      [] OTHER -> "null"

EntriesOfCase(kind) ==
    SelectSeq(configRules, LAMBDA e : FactoryCase(e.ruleId, e.config) = kind)

\* C15: the rules an engine holds are those the factory's cases yield for the
\* entries of the configuration, in order: nothing for a disabled entry; a
\* file-level MetricThresholdRule for an entry with a metric and a threshold,
\* whatever its id; a project-level CircularDependencyRule for the entry
\* module.circularDependency without them; nothing for any other entry, and
\* the engine is built in every case.
C15_FactoryCases ==
    EngineLoaded =>
        LET metric == EntriesOfCase("MetricThresholdRule")
            circular == EntriesOfCase("CircularDependencyRule")
        IN /\ Len(ruleEngine.fileRules) = Len(metric)
           /\ \A i \in DOMAIN metric :
                 LET rule == ruleEngine.fileRules[i]
                 IN /\ rule.kind = "MetricThresholdRule"
                    /\ rule.level = "file"
                    /\ rule.id = metric[i].ruleId
                    /\ rule.metricName = metric[i].config.metric[1]
                    /\ rule.threshold = metric[i].config.threshold[1]
                    /\ rule.severity = metric[i].config.severity
           /\ Len(ruleEngine.projectRules) = Len(circular)
           /\ \A i \in DOMAIN circular :
                 LET rule == ruleEngine.projectRules[i]
                 IN /\ rule.kind = "CircularDependencyRule"
                    /\ rule.level = "project"
                    /\ rule.id = "module.circularDependency"
                    /\ rule.severity = circular[i].config.severity

\* an engine built from three entries: module.circularDependency with a
\* metric and the threshold 0, which yields a metric rule; an entry with an
\* empty metric name, and a disabled entry with a metric and a threshold,
\* which yield nothing
C15_Witness ==
    /\ EngineLoaded
    /\ Len(configRules) = 3
    /\ configRules[1].ruleId = "module.circularDependency"
    /\ configRules[1].config = RuleConfig(TRUE, "error", Some(0), Some("cyclomaticComplexity"))
    /\ configRules[2].config = RuleConfig(TRUE, "error", Some(10), Some(""))
    /\ ~configRules[3].config.enabled
    /\ Len(ruleEngine.fileRules) = 1
    /\ ruleEngine.fileRules[1].kind = "MetricThresholdRule"
    /\ ruleEngine.projectRules = <<>>

\* an engine that holds the project-level rule and a file-level rule, built
\* from a configuration with an unknown entry
FactoryAllCasesReached ==
    /\ EngineLoaded
    /\ Len(configRules) = 3
    /\ Len(ruleEngine.fileRules) = 1
    /\ Len(ruleEngine.projectRules) = 1
    /\ \A i \in DOMAIN configRules : configRules[i].config.enabled

(***************************************************************************)
(* CircularDependencyRule on its own.  The imports of a project of three   *)
(* files as a relation on their base names, and the simple directed cycles *)
(* of that relation, each as the set of its edges.                         *)
(***************************************************************************)
CircularRuleRan == rpc = "done" /\ ruleRun.op = "rule.evaluateProject"

ProjectEdges(rs) ==
    UNION { { <<rs[i].filePath.base, rs[i].dependencies[k].base>> :
                k \in DOMAIN rs[i].dependencies } : i \in DOMAIN rs }

CyclesOnThree ==
    LET B == {"a", "b", "c"}
    IN { {<<x, x>>} : x \in B }
       \cup { {<<x, y>>, <<y, x>>} : x \in B, y \in B }
       \cup { { <<"a", "b">>, <<"b", "c">>, <<"c", "a">> },
              { <<"a", "c">>, <<"c", "b">>, <<"b", "a">> } }

CyclesIn(E) == { c \in CyclesOnThree : c \subseteq E }

ThreeCycle == { <<"a", "b">>, <<"b", "c">>, <<"c", "a">> }

\* C16: CircularDependencyRule.evaluateProject, with or without a supplied
\* graph, returns exactly one finding per cycle of the project: one for a
\* project whose only cycle is a -> b -> c -> a, none for a project without
\* a cycle; each finding has id module.circularDependency and the configured
\* severity.
C16_Original ==
    CircularRuleRan =>
        LET E == ProjectEdges(ruleRun.projectResults)
        IN /\ Len(ruleRun.findings) = Cardinality(CyclesIn(E))
           /\ CyclesIn(E) = {ThreeCycle} => Len(ruleRun.findings) = 1
           /\ CyclesIn(E) = {} => ruleRun.findings = <<>>
           /\ \A i \in DOMAIN ruleRun.findings :
                 /\ ruleRun.findings[i].id = "module.circularDependency"
                 /\ ruleRun.findings[i].severity = ruleRun.config.severity

NoRepeatedImport(rs) == \A i \in DOMAIN rs : NoDuplicates(rs[i].dependencies)
IsBare(rs) == rs[1].filePath.dir = ""

\* what the rule does guarantee: on a project whose imports the graph
\* resolves it reports one finding per simple cycle; on a project of bare
\* names without a repeated import it reports one finding for the single
\* cycle a -> b -> c -> a and none when there is no cycle
CircularRuleCountsCycles ==
    CircularRuleRan =>
        LET rs == ruleRun.projectResults
            E == ProjectEdges(rs)
        IN /\ ~IsBare(rs) => Len(ruleRun.findings) = Cardinality(CyclesIn(E))
           /\ NoRepeatedImport(rs) =>
                 /\ CyclesIn(E) = {ThreeCycle} => Len(ruleRun.findings) = 1
                 /\ CyclesIn(E) = {} => ruleRun.findings = <<>>
           /\ \A i \in DOMAIN ruleRun.findings :
                 /\ ruleRun.findings[i].id = "module.circularDependency"
                 /\ ruleRun.findings[i].severity = ruleRun.config.severity

\* the project a.ts -> b.ts -> c.ts -> a.ts of bare names, c.ts naming a.ts
\* twice, yields two findings for its only cycle
ThreeCycleReportedTwice ==
    /\ CircularRuleRan
    /\ CyclesIn(ProjectEdges(ruleRun.projectResults)) = {ThreeCycle}
    /\ Len(ruleRun.findings) = 2
    /\ ruleRun.findings[1].details.cycle = ruleRun.findings[2].details.cycle

(***************************************************************************)
(* analyzeProject.  prev is its result until the first edit after the full *)
(* analysis; cur is its result when the incremental analysis fell back.    *)
(***************************************************************************)
FullResultOf(snapshot) ==
    LET parsed == { f \in OnDisk : Analyzable(f) }
    IN /\ ~snapshot.none
       /\ pathsOf(snapshot) = parsed
       /\ Len(snapshot.files) = Cardinality(parsed)
       /\ \A f \in OnDisk \ parsed : f \notin pathsOf(snapshot)

\* C17: analyzeProject returns a result whatever happens to single files: a
\* file whose analysis throws is not in files, every other enumerated file is
\* in files exactly once, and the length of files is the number of enumerated
\* files that were analyzed without error.
C17_FailedFileSkipped ==
    /\ (pc = "watching" /\ run.edits = 0) => FullResultOf(prev)
    /\ (pc = "done" /\ run.fellBack) => FullResultOf(cur)

\* a full analysis of three files of which the first cannot be read: the
\* other two are in files
C17_Witness ==
    /\ pc = "done" /\ run.fellBack
    /\ OnDisk = Files
    /\ ~disk[FileA].readable
    /\ pathsOf(cur) = {FileB, FileC}
    /\ Len(cur.files) = 2

(***************************************************************************)
(* The top-level findings of an AnalysisResult.                            *)
(***************************************************************************)
RECURSIVE FindingsOfFirst(_, _)
\* the findings of the first n files, file by file
FindingsOfFirst(files, n) ==
    IF n = 0 THEN <<>> ELSE FindingsOfFirst(files, n - 1) \o files[n].findings

IsProjectFinding(f) == f.id = "module.circularDependency"

FindingsInOrder(snapshot) ==
    LET fileFindings == FindingsOfFirst(snapshot.files, Len(snapshot.files))
        n == Len(fileFindings)
    IN /\ Len(snapshot.findings) >= n
       /\ SubSeq(snapshot.findings, 1, n) = fileFindings
       /\ \A i \in 1..n : ~IsProjectFinding(snapshot.findings[i])
       /\ \A i \in (n + 1)..Len(snapshot.findings) :
             IsProjectFinding(snapshot.findings[i])
       /\ Len(snapshot.findings) - n
             = Cardinality(SimpleCycles(snapshot.dependencyGraph))
       /\ \A i, j \in DOMAIN snapshot.findings :
             (IsProjectFinding(snapshot.findings[i])
                /\ ~IsProjectFinding(snapshot.findings[j])) => j < i

\* C18: in the result of the full analysis and in the result of the
\* incremental analysis the findings list is the findings of the files, file
\* by file in the order of files, followed by the findings of the project
\* rules; no project finding comes before a file finding.
C18_FindingsOrder ==
    /\ pc \in {"watching", "done"} => FindingsInOrder(prev)
    /\ pc = "done" => FindingsInOrder(cur)

\* an incremental result with findings of two files, the retained file first
\* although its path is the larger, followed by the finding of a cycle
C18_Witness ==
    /\ pc = "done" /\ ~run.fellBack
    /\ Len(cur.findings) = 3
    /\ cur.findings[1].details.filePath = FileB
    /\ cur.findings[2].details.filePath = FileA
    /\ IsProjectFinding(cur.findings[3])
    /\ cur.files[1].filePath = FileB

(***************************************************************************)
(* Risk.  The files that import f, directly or through other files, each   *)
(* at its distance from f along importedBy, defined on the edge relation.  *)
(***************************************************************************)
RECURSIVE ImportersAt(_, _, _)
\* the files from which a chain of exactly k imports leads to f
ImportersAt(g, f, k) ==
    IF k = 0 THEN {f}
    ELSE { n \in nodeKeys(g) : \E m \in ImportersAt(g, f, k - 1) : <<n, m>> \in Edges(g) }

TransitiveImporters(g, f) ==
    UNION { ImportersAt(g, f, k) : k \in 1..Cardinality(nodeKeys(g)) } \ {f}

Distance(g, f, n) ==
    CHOOSE k \in 1..Cardinality(nodeKeys(g)) :
        /\ n \in ImportersAt(g, f, k)
        /\ \A j \in 1..(k - 1) : n \notin ImportersAt(g, f, j)

RECURSIVE RiskSum(_, _, _)
RiskSum(g, f, S) ==
    IF S = {} THEN Zero
    ELSE LET n == CHOOSE x \in S : TRUE
         IN RAdd(RMul(RSub(One, StabilityFormula(g, n)),
                      Frac(1, Distance(g, f, n) + 1)),
                 RiskSum(g, f, S \ {n}))

\* C19: the risk score of every file f is the sum over the files n other
\* than f that import f directly or transitively, each counted once at its
\* shortest distance depth(n) >= 1 from f, of (1 - stability(n)) / (depth(n) + 1);
\* it is computed on cyclic graphs too, is never negative, and is 0 for a
\* file that no other file imports.
C19_RiskScore ==
    Built =>
        /\ DOMAIN riskScores = nodeKeys(graph)
        /\ \A f \in nodeKeys(graph) :
              /\ riskScores[f] = RiskSum(graph, f, TransitiveImporters(graph, f))
              /\ RLeq(Zero, riskScores[f])
              /\ importedByOf(graph, f) \subseteq {f} => riskScores[f] = Zero

\* c.js is imported by b.ts and a.ts, registered in that order, a.ts imports
\* b.ts as well and c.js imports a.ts: a.ts is one and two imports away from
\* c.js, on a cycle, and counts at depth 1
C19_Witness ==
    /\ Built
    /\ Edges(graph) = {<<FileA, FileC>>, <<FileB, FileC>>, <<FileA, FileB>>, <<FileC, FileA>>}
    /\ nodesGet(graph, FileC).importedBy = <<FileB, FileA>>
    /\ Distance(graph, FileC, FileA) = 1
    /\ riskScores[FileC] # Zero

(***************************************************************************)
(* A file that imports nothing and is imported by other files (utils.ts).  *)
(***************************************************************************)
IsUtils(g, u) ==
    /\ u \in nodeKeys(g)
    /\ nodesGet(g, u).imports = <<>>
    /\ importedByOf(g, u) # {}

RECURSIVE DepthWeightSum(_, _, _)
\* the sum of 1 / (depth(n) + 1) over the files n of S
DepthWeightSum(g, f, S) ==
    IF S = {} THEN Zero
    ELSE LET n == CHOOSE x \in S : TRUE
         IN RAdd(Frac(1, Distance(g, f, n) + 1), DepthWeightSum(g, f, S \ {n}))

RECURSIVE OwnStabilitySum(_, _, _)
\* the sum of (1 - stability(n)) / (depth(n) + 1) over the files n of S, with
\* the stability calculateStability returned for n
OwnStabilitySum(g, f, S) ==
    IF S = {} THEN Zero
    ELSE LET n == CHOOSE x \in S : TRUE
         IN RAdd(RMul(RSub(One, stability[n].stability),
                      Frac(1, Distance(g, f, n) + 1)),
                 OwnStabilitySum(g, f, S \ {n}))

\* C20: a file that imports nothing and is imported by N other files has
\* stability 0, its risk score is the sum of (1 - 0) / (depth + 1) over the
\* files that import it, and no file of the project has a larger one.
C20_Original ==
    Built =>
        \A u \in nodeKeys(graph) :
            IsUtils(graph, u) =>
                /\ stability[u].stability = Zero
                /\ riskScores[u] = DepthWeightSum(graph, u, TransitiveImporters(graph, u))
                /\ \A f \in nodeKeys(graph) : RLeq(riskScores[f], riskScores[u])

\* C20 amended: such a file has stability 0 and its risk score is the sum
\* over the files n that import it, directly or transitively, of
\* (1 - stability(n)) / (depth(n) + 1) with the stability of n itself; an
\* importer that no file imports has stability 1 and adds nothing, so the
\* score is 0 when no importer is imported itself.
C20_UtilsRisk ==
    Built =>
        \A u \in nodeKeys(graph) :
            IsUtils(graph, u) =>
                LET T == TransitiveImporters(graph, u)
                IN /\ stability[u].stability = Zero
                   /\ riskScores[u] = OwnStabilitySum(graph, u, T)
                   /\ \A n \in T : importedByOf(graph, n) = {}
                                      => stability[n].stability = One
                   /\ (\A n \in T : importedByOf(graph, n) = {})
                         => riskScores[u] = Zero

\* c.js imports nothing and is imported by a.ts and b.ts, which nothing
\* imports: its stability is 0 and its risk score is 0
C20_Witness ==
    /\ Built
    /\ Edges(graph) = {<<FileA, FileC>>, <<FileB, FileC>>}
    /\ IsUtils(graph, FileC)
    /\ stability[FileC].stability = Zero
    /\ stability[FileA].stability = One
    /\ riskScores[FileC] = Zero

(***************************************************************************)
(* Duplicates in the adjacency lists.                                      *)
(***************************************************************************)
\* C23: after graph construction no node's imports and no node's importedBy
\* names a path twice, whatever the import statements, so ce and ca count
\* distinct neighbours.
C23_Original ==
    Built =>
        \A p \in nodeKeys(graph) :
            /\ NoDuplicates(nodesGet(graph, p).imports)
            /\ NoDuplicates(nodesGet(graph, p).importedBy)
            /\ stability[p].ce = Cardinality(importsOf(graph, p))
            /\ stability[p].ca = Cardinality(importedByOf(graph, p))

\* what holds: importedBy names no path twice and ca counts distinct importers
ImportedByDistinct ==
    Built =>
        \A p \in nodeKeys(graph) :
            /\ NoDuplicates(nodesGet(graph, p).importedBy)
            /\ stability[p].ca = Cardinality(importedByOf(graph, p))

\* b.ts imports a.ts as ./a and as ./a.ts and nothing else: its imports list
\* names a.ts twice and its ce is 2
SameModuleImportedTwice ==
    /\ Built
    /\ nodesHas(graph, FileB)
    /\ nodesGet(graph, FileB).imports = <<FileA, FileA>>
    /\ stability[FileB].ce = 2
    /\ nodesGet(graph, FileA).importedBy = <<FileB>>

(***************************************************************************)
(* DependencyGraphImpl used directly: addNode called any number of times   *)
(* on a graph that starts empty.  results holds the calls made so far,     *)
(* each as <<filePath, dependencies>>.                                     *)
(***************************************************************************)
NodeDepLists == UNION { [1..n -> Files] : n \in 0..MaxNodeDeps }

AddNodeInit ==
    /\ results = <<>>
    /\ graph = NoGraph
    /\ circles = <<>>
    /\ stability = <<>>
    /\ riskScores = <<>>
    /\ gpc = "direct"

\* graph.addNode(filePath, dependencies)
AddNodeCall(filePath, dependencies) ==
    /\ gpc = "direct"
    /\ Len(results) < MaxAddNodeCalls
    /\ graph' = addNode(graph, filePath, dependencies)
    /\ results' = Append(results, <<filePath, dependencies>>)
    /\ UNCHANGED <<circles, stability, riskScores, gpc>>
    /\ UNCHANGED <<analyzerVars, ruleVars, configVars, metricVars, watchVars>>

AddNodeNext == \E filePath \in Files, dependencies \in NodeDepLists :
                   AddNodeCall(filePath, dependencies)

InitAddNode == AddNodeInit /\ AnalyzerIdle /\ RulesIdle /\ ConfigIdle /\ MetricIdle /\ WatchIdle

SpecAddNode == InitAddNode /\ [][AddNodeNext]_vars

\* C30: after any sequence of addNode calls, a repeated call for the same
\* file with another dependency list included, m is in n.imports if and only
\* if n is in m.importedBy.
C30_Original == gpc = "direct" => Symmetric(graph)

\* what holds: every reverse edge was an import of some call, and every
\* import of the last call of a file has its reverse edge
ImportsHaveReverseEdge ==
    gpc = "direct" =>
        \A n \in nodeKeys(graph) : \A m \in importsOf(graph, n) :
            nodesHas(graph, m) /\ n \in importedByOf(graph, m)

\* a.ts was added importing b.ts and added again importing nothing: b.ts is
\* still imported by a.ts
StaleImportedBy ==
    /\ gpc = "direct"
    /\ nodesHas(graph, FileA) /\ nodesHas(graph, FileB)
    /\ nodesGet(graph, FileA).imports = <<>>
    /\ FileA \in importedByOf(graph, FileB)

(***************************************************************************)
(* The message of a circular-dependency finding, read back: the modules it *)
(* lists, split at the arrows.                                             *)
(***************************************************************************)
RECURSIVE SplitAtArrows(_, _)
\* the parts of a token sequence between the " -> " tokens
SplitAtArrows(tokens, part) ==
    IF tokens = <<>> THEN <<part>>
    ELSE IF Head(tokens) = " -> "
    THEN <<part>> \o SplitAtArrows(Tail(tokens), <<>>)
    ELSE SplitAtArrows(Tail(tokens), Append(part, Head(tokens)))

ListedModules(message) == SplitAtArrows(Tail(message), <<>>)

TimesListed(listed, m) == Cardinality({ i \in DOMAIN listed : listed[i] = m })

ClosedPathListing(listed) ==
    /\ Len(listed) >= 2
    /\ listed[1] = listed[Len(listed)]
    /\ TimesListed(listed, listed[1]) = 2
    /\ \A i \in DOMAIN listed :
          listed[i] # listed[1] => TimesListed(listed, listed[i]) = 1

\* C25: the message of every module.circularDependency finding lists its
\* cycle as a closed path a -> b -> c -> a: the starting module first and
\* last and nowhere else, every other module once, for cycles of the graph
\* and for cycles found in the raw dependency lists.
C25_Original ==
    CircularRuleRan =>
        \A i \in DOMAIN ruleRun.findings :
            ClosedPathListing(ListedModules(ruleRun.findings[i].message))

\* what the message is: the cycle array, which already ends with its first
\* module, followed by that module once more
MessageRepeatsStart ==
    CircularRuleRan =>
        \A i \in DOMAIN ruleRun.findings :
            LET listed == ListedModules(ruleRun.findings[i].message)
                cycle == ruleRun.findings[i].details.cycle
            IN /\ Len(listed) = Len(cycle) + 1
               /\ \A k \in DOMAIN cycle : listed[k] = join(<<cycle[k]>>, "")
               /\ listed[Len(listed)] = listed[1]
               /\ TimesListed(listed, listed[1]) >= 3

\* the cycle a -> b -> c -> a of a supplied graph is reported as
\* a -> b -> c -> a -> a
StartListedThreeTimes ==
    /\ CircularRuleRan
    /\ ruleRun.dependencyGraph.kind = "graph"
    /\ Len(ruleRun.findings) = 1
    /\ ruleRun.findings[1].details.cycle = <<FileA, FileB, FileC, FileA>>
    /\ Len(ListedModules(ruleRun.findings[1].message)) = 5
    /\ TimesListed(ListedModules(ruleRun.findings[1].message),
                   join(<<FileA>>, "")) = 3

\* the same cycle found in raw dependency lists is reported as
\* a -> b -> c -> a -> a -> a
StartListedFourTimes ==
    /\ CircularRuleRan
    /\ IsBare(ruleRun.projectResults)
    /\ Len(ruleRun.findings) = 1
    /\ Len(ListedModules(ruleRun.findings[1].message)) = 6
    /\ TimesListed(ListedModules(ruleRun.findings[1].message),
                   ListedModules(ruleRun.findings[1].message)[1]) = 4

(***************************************************************************)
(* CircularDependencyRule with a supplied graph.                           *)
(***************************************************************************)
GraphSupplied == CircularRuleRan /\ ruleRun.dependencyGraph.kind = "graph"

ReportedCycles == [i \in DOMAIN ruleRun.findings |-> ruleRun.findings[i].details.cycle]

\* file p names file q in its raw dependency list by q's path
RawImport(rs, p, q) ==
    \E i \in DOMAIN rs :
        /\ rs[i].filePath = p
        /\ \E k \in DOMAIN rs[i].dependencies : rawAsPath(rs[i].dependencies[k]) = q

\* C29: with a supplied graph the findings correspond one-to-one to the
\* cycles of that graph; there is no finding when the graph has no cycle,
\* whatever the raw dependency strings are.
C29_Original ==
    GraphSupplied =>
        LET cycles == SimpleCycles(ruleRun.dependencyGraph.g)
        IN /\ Len(ruleRun.findings) = Cardinality(cycles)
           /\ Range(ReportedCycles) = cycles
           /\ cycles = {} => ruleRun.findings = <<>>

\* C29 amended: when the supplied graph has a cycle the findings correspond
\* one-to-one to its cycles; when it has none the rule searches the raw
\* dependency lists and reports the cycles it finds among the dependency
\* strings that are paths of the files: at least one if there is one, none
\* if no such string names a file.
C29_GraphCyclesElseRawLists ==
    GraphSupplied =>
        LET rs == ruleRun.projectResults
            cycles == SimpleCycles(ruleRun.dependencyGraph.g)
        IN IF cycles # {}
           THEN /\ Len(ruleRun.findings) = Cardinality(cycles)
                /\ Range(ReportedCycles) = cycles
           ELSE /\ \A i \in DOMAIN ReportedCycles :
                      LET c == ReportedCycles[i]
                      IN /\ Len(c) >= 3
                         /\ \A k \in 1..(Len(c) - 2) : RawImport(rs, c[k], c[k + 1])
                         /\ c[Len(c) - 1] = c[1]
                /\ (IsBare(rs) /\ CyclesIn(ProjectEdges(rs)) # {})
                      => ruleRun.findings # <<>>
                /\ ~IsBare(rs) => ruleRun.findings = <<>>

\* a supplied graph without a cycle, built from file results that name each
\* other by bare file name in a cycle: the rule reports a finding
C29_Witness ==
    /\ GraphSupplied
    /\ SimpleCycles(ruleRun.dependencyGraph.g) = {}
    /\ Edges(ruleRun.dependencyGraph.g) = {}
    /\ ProjectEdges(ruleRun.projectResults) = ThreeCycle
    /\ Len(ruleRun.findings) = 1

(***************************************************************************)
(* Files of the previous snapshot after an incremental analysis.           *)
(***************************************************************************)
IncrementalDone == pc = "done" /\ ~run.fellBack

\* C26: after analyzeFiles(paths, prev) every file of prev that still exists
\* on disk is in the new snapshot's files and in its graph, also when the
\* re-analysis of an impacted file throws.
C26_Original ==
    IncrementalDone =>
        \A p \in pathsOf(prev) :
            disk[p].exists =>
                p \in pathsOf(cur) /\ nodesHas(cur.dependencyGraph, p)

\* C26 amended: a file of prev that still exists is in the new snapshot's
\* files and graph exactly when it is not impacted or its re-analysis
\* succeeds; an impacted file whose re-analysis throws is left out of both.
C26_FailedFileLeftOut ==
    IncrementalDone =>
        \A p \in pathsOf(prev) :
            disk[p].exists =>
                LET kept == p \notin Range(run.impacted) \/ Analyzable(p)
                IN /\ (p \in pathsOf(cur)) = kept
                   /\ nodesHas(cur.dependencyGraph, p) = kept

\* b.ts is in prev, imported by a.ts, still on disk but unreadable, and is
\* re-analyzed: the new snapshot holds a.ts without b.ts and a graph without
\* the node of b.ts
C26_Witness ==
    /\ IncrementalDone
    /\ {FileA, FileB} \subseteq pathsOf(prev)
    /\ FileB \in importsOf(prev.dependencyGraph, FileA)
    /\ disk[FileB].exists /\ ~disk[FileB].readable
    /\ FileB \in Range(run.impacted)
    /\ FileA \in pathsOf(cur)
    /\ FileB \notin pathsOf(cur)
    /\ ~nodesHas(cur.dependencyGraph, FileB)

(***************************************************************************)
(* Properties of the Analyzer configuration.                               *)
(***************************************************************************)
Constructed == cpc \in {"constructed", "analyzedErrors", "analyzedClean"}

\* the rule ids that the rules of the constructor's argument name
MentionedRules ==
    IF partialConfig.rules = Undefined THEN {} ELSE DOMAIN partialConfig.rules[1]

\* C21: an Analyzer constructed from a partial configuration whose rules do
\* not mention syntax.error keeps the default, enabled syntax.error rule, so
\* a file with parse errors receives a syntax.error finding.
C21_Original ==
    (cpc = "analyzedErrors" /\ "syntax.error" \notin MentionedRules)
        => syntaxFindings = <<"syntax.error">>

\* What the constructor does: rules of the argument replace the default
\* rules as a whole, and only an argument without rules keeps the defaults.
RulesReplacedWhole ==
    Constructed =>
        analyzerConfig.rules = IF partialConfig.rules # Undefined
                               THEN partialConfig.rules
                               ELSE Some(DEFAULT_CONFIG_rules)

\* A file with parse errors is reported exactly when the rules of the
\* argument are absent or name syntax.error as enabled.
SyntaxErrorReportedIffNamed ==
    cpc = "analyzedErrors" =>
        (syntaxFindings = <<"syntax.error">>
            <=> \/ partialConfig.rules = Undefined
                \/ /\ "syntax.error" \in MentionedRules
                   /\ partialConfig.rules[1]["syntax.error"].enabled = Some(TRUE))

\* The Orchestrator's Analyzer analyzed a file with parse errors and the
\* configuration file did not mention syntax.error: nothing was reported.
OrchestratorDropsSyntaxError ==
    /\ cpc = "analyzedErrors"
    /\ loadedConfig # NoConfig
    /\ "syntax.error" \notin MentionedRules
    /\ syntaxFindings = <<>>

(***************************************************************************)
(* Properties of loadConfig.                                               *)
(***************************************************************************)
Loaded == loadedConfig # NoConfig

\* the file is there, has a supported extension and parses to an object
Readable(file) ==
    /\ file.exists
    /\ file.ext \in {".yaml", ".yml", ".json"}
    /\ file.parses
    /\ file.value # Undefined

\* the log level the configuration file asks for
ExpectedLogLevel(file) ==
    IF Readable(file) /\ truthy(file.value[1].logLevel)
    THEN file.value[1].logLevel[1]
    ELSE IF Readable(file) /\ file.value[1].debugMode = Some(TRUE)
    THEN "debug"
    ELSE "info"

\* C22: loadConfig always returns a configuration whose logLevel is set:
\* the explicit logLevel of the file, otherwise debug when debugMode is
\* true, otherwise info, also when the file does not exist.
C22_Original ==
    Loaded => loadedConfig.logLevel = Some(ExpectedLogLevel(configFile))

\* What loadConfig does: the log level is set exactly for a file it could
\* read, and every other path returns the defaults without a logLevel.
LogLevelSetIffReadable ==
    Loaded =>
        loadedConfig.logLevel = IF Readable(configFile)
                                THEN Some(ExpectedLogLevel(configFile))
                                ELSE Undefined

MissingFileHasNoLogLevel ==
    Loaded /\ ~configFile.exists /\ loadedConfig.logLevel = Undefined

(***************************************************************************)
(* Properties of the cognitive complexity.                                 *)
(***************************************************************************)
RECURSIVE NestingAncestors(_, _)
\* the number of nesting structures that enclose node n
NestingAncestors(tree, n) ==
    IF tree.parent[n] = 0 THEN 0
    ELSE (IF isNestingStructure(tree.type[tree.parent[n]]) THEN 1 ELSE 0)
         + NestingAncestors(tree, tree.parent[n])

RECURSIVE IncrementsUpTo(_, _)
\* 1 plus the nesting level at entry, summed over the increment structures
\* among the nodes 1..n
IncrementsUpTo(tree, n) ==
    IF n = 0 THEN 0
    ELSE IncrementsUpTo(tree, n - 1)
         + (IF isIncrementingStructure(tree.type[n])
            THEN 1 + NestingAncestors(tree, n)
            ELSE 0)

\* the nodes that processNode counts
CountedNodes(tree) ==
    { n \in DOMAIN tree.type :
        isIncrementingStructure(tree.type[n]) \/ isControlFlowBreak(tree.type[n]) }

\* C24: every increment structure adds 1 plus the nesting level at its
\* entry, the number of nesting structures around it, so the complexity is
\* at least the sum of these contributions.
C24_Original ==
    cognitive # Undefined => cognitive[1] >= IncrementsUpTo(ast, Len(ast.type))

\* What the visitor does: the nesting level is back at 0 before the first
\* child is visited, so every increment structure and every control-flow
\* break adds exactly 1, whatever encloses it.
CognitiveIgnoresNesting ==
    cognitive # Undefined => cognitive[1] = Cardinality(CountedNodes(ast))

\* an if statement directly inside an if statement: the two add 2, not 3
NestedIfCountsOne ==
    /\ cognitive = Some(2)
    /\ Len(ast.type) >= 2
    /\ ast.type[1] = "if_statement"
    /\ ast.type[2] = "if_statement"
    /\ ast.parent[2] = 1
    /\ Cardinality(CountedNodes(ast)) = 2

(***************************************************************************)
(* Properties of the watch command.                                        *)
(***************************************************************************)
\* C27: a path added to changedFiles is not discarded by the final
\* changedFiles.clear() of a triggerAnalysis execution before it has been
\* passed to an analysis: a path no analysis has been started for since its
\* last event is still in changedFiles.
C27_Original == unanalyzed \subseteq changedSet

\* A path is dropped for good: no analysis was started for its last event,
\* changedFiles is empty, and nothing is pending that would add it again.
EventLost ==
    /\ unanalyzed # {}
    /\ changedSet = {}
    /\ debounceTimers = {}
    /\ InFlight = {}
    /\ analysisTimer = "fired"

\* C28: at most one triggerAnalysis execution is in progress at any time.
C28_Original == Cardinality(InFlight) <= 1

\* prevResult is never overwritten by an execution that started earlier
\* than the one whose result it holds.
PrevResultNeverOlder == [][lastResult' >= lastResult]_vars

\* Two executions overlap and the earlier one finishes last.
OlderRunOverwrites ==
    /\ Len(runs) >= 2
    /\ runs[2].at = "done"
    /\ runs[1].at = "done"
    /\ lastResult = 1
====
